---- MODULE Spec2Model ----
(***************************************************************************)
(* A model of the neohtml page parser (src/page/mod.rs, attribute.rs,      *)
(* section.rs): the single-lookahead line Reader, the attribute parser,    *)
(* the text accumulator, the recursive section grammar and the emission of *)
(* Code sections.                                                          *)
(*                                                                         *)
(* A Rust String / &str is a sequence of one-character strings, so that    *)
(* starts_with, strip_prefix, trim and replace are computed character by   *)
(* character.  Option<T> is a sequence of length 0 (None) or 1 (Some).     *)
(* The line source is the in-memory one of Page::from_source, which never  *)
(* yields an I/O error; it is the sequence of the input's physical lines.  *)
(***************************************************************************)
EXTENDS Integers, Sequences, FiniteSets, TLC

VARIABLES source, reader, call, result, before

vars == <<source, reader, call, result, before>>

(***************************************************************************)
(* Option                                                                  *)
(***************************************************************************)
None == <<>>
Some(x) == <<x>>
is_some(o) == Len(o) = 1
is_none(o) == Len(o) = 0
unwrap(o) == o[1]

(***************************************************************************)
(* str                                                                     *)
(***************************************************************************)
is_whitespace(c) == c \in {" ", "\t", "\n", "\r"}

RECURSIVE trim_start(_)
trim_start(s) ==
  IF Len(s) > 0 /\ is_whitespace(s[1]) THEN trim_start(Tail(s)) ELSE s

RECURSIVE trim_end(_)
trim_end(s) ==
  IF Len(s) > 0 /\ is_whitespace(s[Len(s)])
  THEN trim_end(SubSeq(s, 1, Len(s) - 1))
  ELSE s

trim(s) == trim_end(trim_start(s))

starts_with(s, p) == Len(p) <= Len(s) /\ SubSeq(s, 1, Len(p)) = p

ends_with(s, p) ==
  Len(p) <= Len(s) /\ SubSeq(s, Len(s) - Len(p) + 1, Len(s)) = p

strip_prefix(s, p) ==
  IF starts_with(s, p) THEN Some(SubSeq(s, Len(p) + 1, Len(s))) ELSE None

strip_suffix(s, p) ==
  IF ends_with(s, p) THEN Some(SubSeq(s, 1, Len(s) - Len(p))) ELSE None

\* str::find: the index of the first occurrence of p in s, 0 when there is none
RECURSIVE find_from(_, _, _)
find_from(s, p, i) ==
  IF i + Len(p) - 1 > Len(s) THEN 0
  ELSE IF SubSeq(s, i, i + Len(p) - 1) = p THEN i
  ELSE find_from(s, p, i + 1)

find(s, p) == find_from(s, p, 1)

\* str::replace(from, to) for a one-character pattern
RECURSIVE replace_char(_, _, _)
replace_char(s, from, to) ==
  IF Len(s) = 0 THEN <<>>
  ELSE (IF s[1] = from THEN to ELSE <<s[1]>>) \o replace_char(Tail(s), from, to)

(***************************************************************************)
(* String literals of the source                                           *)
(***************************************************************************)
s_dashes == <<"-", "-">>
\* SANY's lexer rejects a backquote inside a string literal: the backquote
\* character is the atom backtick.
backtick == "BACKTICK"
s_fence == <<backtick, backtick, backtick>>
s_hash == <<"#">>
s_slash == <<"/">>
s_colon == <<":">>
s_colon_space == <<":", " ">>
s_nl == <<"\n">>
s_sp == <<" ">>

(***************************************************************************)
(* mod.rs: marker prefixes                                                 *)
(***************************************************************************)
has_section_prefix(line) ==
  starts_with(line, s_dashes) \/ starts_with(line, s_fence)
    \/ starts_with(line, s_hash)

strip_section_prefix(line) ==
  LET dashed == strip_prefix(line, s_dashes)
      stripped == IF is_some(dashed) THEN dashed
                  ELSE IF starts_with(line, s_fence) THEN Some(line)
                  ELSE None
  IN IF is_some(stripped) THEN Some(trim(unwrap(stripped))) ELSE None

has_attr_prefix(line) == starts_with(line, s_dashes)

strip_attr_prefix(line) ==
  LET dashed == strip_prefix(line, s_dashes)
  IN IF is_some(dashed) THEN Some(trim(unwrap(dashed))) ELSE None

(***************************************************************************)
(* mod.rs: Reader.  A reader is [lines |-> the lines not yet read from the *)
(* line source, peek |-> Option<String>].  Every operation yields          *)
(* [r |-> the reader after it, v |-> what it returns].                     *)
(*                                                                         *)
(* A value that the source binds with `let` and uses more than once is the *)
(* parameter of an operator of its own here (next_line_if binds the peeked *)
(* reader for next_line_if_peeked, and so on).                             *)
(***************************************************************************)
Reader_new(src) == [lines |-> src, peek |-> None]

\* the line source's next line moved into the peek slot
read_line(r) == [lines |-> Tail(r.lines), peek |-> Some(Head(r.lines))]

peeked(r) == [r |-> r, v |-> r.peek]

\* peek_line without the is_none test of mod.rs:107: a cached line is overwritten
peek_line_refill(r) ==
  IF Len(r.lines) > 0 THEN peeked(read_line(r)) ELSE peeked(r)

peek_line(r) ==
  IF is_none(r.peek) /\ Len(r.lines) > 0 THEN peeked(read_line(r))
  ELSE peeked(r)

\* self.peek.take()
take(r) == [r |-> [r EXCEPT !.peek = None], v |-> r.peek]

next_line(r) == take(peek_line(r).r)

\* The predicates handed to next_line_if: skip_blank's closure (mod.rs:147),
\* has_attr_prefix (mod.rs:239) and has_section_prefix.
pred(p, line) ==
  CASE p = "blank" -> Len(trim(line)) = 0
    [] p = "has_attr_prefix" -> has_attr_prefix(line)
    [] p = "has_section_prefix" -> has_section_prefix(line)

\* next_line_if once peek_line has run (mod.rs:124-129)
next_line_if_peeked(r, p) ==
  IF is_some(r.peek) /\ pred(p, unwrap(r.peek)) THEN take(r)
  ELSE [r |-> r, v |-> None]

next_line_if(r, p) == next_line_if_peeked(peek_line(r).r, p)

\* skip_blank, given what next_line_if returned
skip_blank_of(n) == [r |-> n.r, v |-> is_some(n.v)]

skip_blank(r) == skip_blank_of(next_line_if(r, "blank"))

RECURSIVE skip_blanks(_)
\* skip_blanks, given what skip_blank returned
skip_blanks_of(s) == IF s.v THEN skip_blanks(s.r) ELSE s.r

skip_blanks(r) == skip_blanks_of(skip_blank(r))

(***************************************************************************)
(* The closures of the source, as data.  An FnMut closure carries its      *)
(* captured state, so applying one yields the closure to apply next.       *)
(*                                                                         *)
(* until-closures (the argument of next_text_until):                       *)
(*   [kind |-> "section"]               has_section_prefix      mod.rs:234 *)
(*   [kind |-> "tag", tag |-> t]        next_text_until_tag     mod.rs:201 *)
(*   [kind |-> "entry", filter |-> f, fist_line |-> b]  next_list mod.rs:271 *)
(*   [kind |-> "check"]                 checklist prelude   section.rs:270 *)
(* list filters (the argument of next_list):                               *)
(*   [kind |-> "starts_with", prefix |-> p]                     mod.rs:291 *)
(*   [kind |-> "check"]  starts_with("[]") || starts_with("[x]")           *)
(*                                                          section.rs:274 *)
(***************************************************************************)
s_dash_space == <<"-", " ">>
s_unchecked == <<"[", "]">>
s_checked == <<"[", "x", "]">>

list_filter(f, line) ==
  CASE f.kind = "starts_with" -> starts_with(line, f.prefix)
    [] f.kind = "check" ->
         starts_with(line, s_unchecked) \/ starts_with(line, s_checked)

\* the closure of next_text_until_tag ending at any structural marker line
until_tag_any(tag, line, section) == is_some(section)

\* the closure of next_text_until_tag, given strip_section_prefix(line)
until_tag_of(tag, line, section) ==
  IF tag = s_fence /\ line = tag THEN TRUE
  ELSE is_some(section) /\ strip_prefix(unwrap(section), s_slash) = Some(tag)

until_tag(tag, line) == until_tag_of(tag, line, strip_section_prefix(line))

until(u, line) ==
  CASE u.kind = "section" -> [v |-> has_section_prefix(line), u |-> u]
    [] u.kind = "tag" -> [v |-> until_tag(u.tag, line), u |-> u]
    [] u.kind = "entry" ->
         IF u.fist_line
         THEN [v |-> FALSE, u |-> [u EXCEPT !.fist_line = FALSE]]
         ELSE [v |-> has_section_prefix(line) \/ list_filter(u.filter, line),
               u |-> u]
    [] u.kind = "check" -> [v |-> list_filter([kind |-> "check"], line), u |-> u]

(***************************************************************************)
(* filter_map-closures (the argument of next_text and next_line_if_map):   *)
(*   [kind |-> "until", u |-> u]        next_text_until         mod.rs:196 *)
(*   [kind |-> "prefixed", prefix |-> p, raw |-> b]  next_text_prefixed 222 *)
(*   [kind |-> "heading", prefix |-> p] next_sections           mod.rs:327 *)
(*   [kind |-> "strip_attr_prefix"]     image, youtube, vimeo section.rs:279 *)
(***************************************************************************)
\* the heading closure letting a deeper run of # through
heading_stripped_deeper(rest) == rest

\* the heading closure, given line.strip_prefix(&prefix)
heading_stripped(rest) ==
  IF is_none(rest) THEN None
  ELSE IF starts_with(unwrap(rest), s_hash) THEN None
  ELSE rest

heading_filter_map(prefix, line) ==
  IF Len(trim(line)) = 0 THEN Some(line)
  ELSE heading_stripped(strip_prefix(line, prefix))

prefixed_filter_map(prefix, raw, line) ==
  IF Len(trim(line)) = 0 /\ raw THEN None ELSE strip_prefix(line, prefix)

\* the closure of next_text_until (mod.rs:196), given what until returned
until_filter_map(f, x, line) ==
  [v |-> IF x.v THEN None ELSE Some(line), f |-> [f EXCEPT !.u = x.u]]

filter_map(f, line) ==
  CASE f.kind = "until" -> until_filter_map(f, until(f.u, line), line)
    [] f.kind = "prefixed" ->
         [v |-> prefixed_filter_map(f.prefix, f.raw, line), f |-> f]
    [] f.kind = "heading" -> [v |-> heading_filter_map(f.prefix, line), f |-> f]
    [] f.kind = "strip_attr_prefix" -> [v |-> strip_attr_prefix(line), f |-> f]

\* next_line_if_map, given what the map returned for the peeked line
next_line_if_mapped(r, m) ==
  IF is_some(m.v) THEN [r |-> [r EXCEPT !.peek = None], v |-> m.v, f |-> m.f]
  ELSE [r |-> r, v |-> None, f |-> m.f]

\* next_line_if_map once peek_line has run (mod.rs:136-143)
next_line_if_map_peeked(r, f) ==
  IF is_some(r.peek) THEN next_line_if_mapped(r, filter_map(f, unwrap(r.peek)))
  ELSE [r |-> r, v |-> None, f |-> f]

\* yields [r, v, f]: f is the closure after the call
next_line_if_map(r, f) == next_line_if_map_peeked(peek_line(r).r, f)

(***************************************************************************)
(* mod.rs: the text accumulator                                            *)
(***************************************************************************)
\* push_line joining two flowed lines without the space of mod.rs:178
push_line_nospace(text, line, raw) ==
  IF raw THEN text \o line \o s_nl
  ELSE IF Len(trim(line)) = 0 THEN text \o s_nl
  ELSE text \o line

\* push_line pushing no second newline for a run of blank lines
push_line_collapse(text, line, raw) ==
  IF raw THEN text \o line \o s_nl
  ELSE IF Len(trim(line)) = 0
       THEN (IF ends_with(text, s_nl) THEN text ELSE text \o s_nl)
  ELSE (IF ~ends_with(text, s_nl) THEN text \o s_sp ELSE text) \o line

\* one turn of next_text's loop body (mod.rs:169-182): text after the line
push_line(text, line, raw) ==
  IF raw THEN text \o line \o s_nl
  ELSE IF Len(trim(line)) = 0 THEN text \o s_nl
  ELSE (IF ~ends_with(text, s_nl) THEN text \o s_sp ELSE text) \o line

RECURSIVE next_text_loop(_, _, _, _)
\* one turn of next_text's loop, given what next_line_if_map returned
next_text_turn(n, raw, text) ==
  IF is_none(n.v) THEN [r |-> n.r, v |-> text]
  ELSE next_text_loop(n.r, n.f, raw, push_line(text, unwrap(n.v), raw))

next_text_loop(r, f, raw, text) ==
  next_text_turn(next_line_if_map(r, f), raw, text)

\* next_text_trimmed trimming both ends of raw text too
next_text_trim_both(t, raw) == [r |-> t.r, v |-> trim(t.v)]

\* the end of next_text (mod.rs:184-188), given what the loop accumulated
next_text_trimmed(t, raw) ==
  [r |-> t.r, v |-> IF raw THEN trim_end(t.v) ELSE trim(t.v)]

next_text(r, f, raw) ==
  next_text_trimmed(next_text_loop(skip_blanks(r), f, raw, <<>>), raw)

next_text_until(r, u, raw) == next_text(r, [kind |-> "until", u |-> u], raw)

\* the end of next_text_until_tag (mod.rs:216-217): the end line is consumed
next_text_until_tag_end(t) == [r |-> next_line(t.r).r, v |-> t.v]

next_text_until_tag(r, tag, raw) ==
  next_text_until_tag_end(next_text_until(r, [kind |-> "tag", tag |-> tag], raw))

next_text_prefixed(r, prefix, raw) ==
  next_text(r, [kind |-> "prefixed", prefix |-> prefix, raw |-> raw], raw)

next_text_until_section(r, raw) ==
  next_text_until(r, [kind |-> "section"], raw)

(***************************************************************************)
(* attribute.rs: Attribute.  An attribute is [attr |-> the variant,        *)
(* arg |-> Option<String>].  A Result is [ok |-> TRUE, v |-> value] or     *)
(* [ok |-> FALSE, err |-> <<the PageParseError variant, its fields>>].     *)
(***************************************************************************)
s_alt == <<"a", "l", "t">>
s_class == <<"c", "l", "a", "s", "s">>
s_hidden == <<"h", "i", "d", "d", "e", "n">>
s_id == <<"i", "d">>
s_show == <<"s", "h", "o", "w">>
s_src == <<"s", "r", "c">>
s_title == <<"t", "i", "t", "l", "e">>
s_subtitle == <<"s", "u", "b", "t", "i", "t", "l", "e">>
s_by == <<"b", "y">>
s_source == <<"s", "o", "u", "r", "c", "e">>
s_url == <<"u", "r", "l">>

Ok(v) == [ok |-> TRUE, v |-> v]
Err(e) == [ok |-> FALSE, err |-> e]

\* sscanf, given the index of the separator's first occurrence (0: none)
sscanf_at(input, sep, i) ==
  IF i = 0 THEN None
  ELSE Some(<<SubSeq(input, 1, i - 1), SubSeq(input, i + Len(sep), Len(input))>>)

\* scanf::sscanf!(input, "{}<sep>{}", a, b): the first placeholder takes the
\* input up to the first occurrence of the separator text, the last one the
\* rest of the input; no occurrence is a failure.  Some(<<a, b>>) or None.
sscanf(input, sep) == sscanf_at(input, sep, find(input, sep))

\* with_arg! falling back to an empty argument instead of the error
with_arg_default(variant, attr_name, attr_value) ==
  IF is_some(attr_value)
  THEN Ok(Some([attr |-> variant, arg |-> attr_value]))
  ELSE Ok(Some([attr |-> variant, arg |-> Some(<<>>)]))

with_arg(variant, attr_name, attr_value) ==
  IF is_some(attr_value)
  THEN Ok(Some([attr |-> variant, arg |-> attr_value]))
  ELSE Err(<<"MissingAttributeArgument", attr_name>>)

no_args(variant, attr_name, attr_value) ==
  IF is_some(attr_value)
  THEN Err(<<"UnexpectedArgument", unwrap(attr_value), attr_name>>)
  ELSE Ok(Some([attr |-> variant, arg |-> None]))

\* the match of Attribute::parse (attribute.rs:70-83)
Attribute_match(attr_name, attr_value) ==
  CASE attr_name = s_alt -> with_arg("Alt", attr_name, attr_value)
    [] attr_name = s_class -> with_arg("Class", attr_name, attr_value)
    [] attr_name = s_hidden -> no_args("Hidden", attr_name, attr_value)
    [] attr_name = s_id -> with_arg("Id", attr_name, attr_value)
    [] attr_name = s_show -> no_args("Show", attr_name, attr_value)
    [] attr_name = s_src -> with_arg("Src", attr_name, attr_value)
    [] attr_name = s_title -> with_arg("Title", attr_name, attr_value)
    [] attr_name = s_subtitle -> with_arg("Subtitle", attr_name, attr_value)
    [] attr_name = s_by -> with_arg("By", attr_name, attr_value)
    [] attr_name = s_source -> with_arg("Source", attr_name, attr_value)
    [] attr_name = s_url -> with_arg("Url", attr_name, attr_value)
    [] OTHER -> Ok(None)

\* Attribute::parse, given what sscanf! returned (attribute.rs:45-50)
Attribute_scanned(attr, scanned) ==
  IF is_some(scanned)
  THEN Attribute_match(unwrap(scanned)[1], Some(unwrap(scanned)[2]))
  ELSE Attribute_match(attr, None)

Attribute_parse(attr) == Attribute_scanned(attr, sscanf(attr, s_colon_space))

(***************************************************************************)
(* mod.rs: Specials.  A fallible Reader operation yields                   *)
(* [ok |-> TRUE, r |-> reader, v |-> value] or                             *)
(* [ok |-> FALSE, r |-> reader, err |-> error].                            *)
(***************************************************************************)
ROk(r, v) == [ok |-> TRUE, r |-> r, v |-> v]
RErr(r, e) == [ok |-> FALSE, r |-> r, err |-> e]

\* next_attr_parsed putting the stripped body back instead of the line
next_attr_parsed_stripped(r, line, parsed) ==
  IF ~parsed.ok THEN RErr(r, parsed.err)
  ELSE IF is_some(parsed.v) THEN ROk(r, parsed.v)
  ELSE ROk([r EXCEPT !.peek = strip_attr_prefix(line)], None)

\* next_attr_parsed dropping the line that is no attribute
next_attr_parsed_dropped(r, line, parsed) ==
  IF ~parsed.ok THEN RErr(r, parsed.err)
  ELSE IF is_some(parsed.v) THEN ROk(r, parsed.v)
  ELSE ROk(r, None)

\* next_attr, given what Attribute::parse returned (mod.rs:241-245)
next_attr_parsed(r, line, parsed) ==
  IF ~parsed.ok THEN RErr(r, parsed.err)
  ELSE IF is_some(parsed.v) THEN ROk(r, parsed.v)
  ELSE ROk([r EXCEPT !.peek = Some(line)], None)

\* next_attr, given strip_attr_prefix(&line) (mod.rs:240)
next_attr_body(r, line, attr) ==
  IF is_some(attr) THEN next_attr_parsed(r, line, Attribute_parse(unwrap(attr)))
  ELSE ROk(r, None)

\* next_attr, given what next_line_if returned (mod.rs:239)
next_attr_line(n) ==
  IF is_some(n.v) THEN next_attr_body(n.r, unwrap(n.v), strip_attr_prefix(unwrap(n.v)))
  ELSE ROk(n.r, None)

next_attr(r) == next_attr_line(next_line_if(r, "has_attr_prefix"))

RECURSIVE next_attrs_loop(_, _)
\* one turn of next_attrs' loop, given what next_attr returned
next_attrs_turn(a, attrs) ==
  IF ~a.ok THEN a
  ELSE IF is_some(a.v) THEN next_attrs_loop(a.r, Append(attrs, unwrap(a.v)))
  ELSE ROk(a.r, attrs)

next_attrs_loop(r, attrs) == next_attrs_turn(next_attr(r), attrs)

next_attrs(r) == next_attrs_loop(r, <<>>)

(***************************************************************************)
(* section.rs: Section.  A section is a record whose kind is the variant.  *)
(***************************************************************************)
s_code == <<"c", "o", "d", "e">>
s_h1 == <<"h", "1">>
s_h2 == <<"h", "2">>
s_h3 == <<"h", "3">>
s_h4 == <<"h", "4">>
s_h5 == <<"h", "5">>
s_h6 == <<"h", "6">>
s_p == <<"p">>
s_nav == <<"n", "a", "v">>
s_footnote == <<"f", "o", "o", "t", "n", "o", "t", "e">>
s_aside == <<"a", "s", "i", "d", "e">>
s_blockquote == <<"b", "l", "o", "c", "k", "q", "u", "o", "t", "e">>
s_ref == <<"r", "e", "f">>
s_note == <<"n", "o", "t", "e">>
s_warning == <<"w", "a", "r", "n", "i", "n", "g">>
s_article == <<"a", "r", "t", "i", "c", "l", "e">>
s_section == <<"s", "e", "c", "t", "i", "o", "n">>
s_div == <<"d", "i", "v">>
s_pre == <<"p", "r", "e">>
s_script == <<"s", "c", "r", "i", "p", "t">>
s_html == <<"h", "t", "m", "l">>
s_css == <<"c", "s", "s">>
s_style == <<"s", "t", "y", "l", "e">>
s_hr == <<"h", "r">>
s_bookmark == <<"b", "o", "o", "k", "m", "a", "r", "k">>
s_notes == <<"n", "o", "t", "e", "s">>
s_warnings == <<"w", "a", "r", "n", "i", "n", "g", "s">>
s_list == <<"l", "i", "s", "t">>
s_olist == <<"o", "l", "i", "s", "t">>
s_ol == <<"o", "l">>
s_ul == <<"u", "l">>
s_checklist == <<"c", "h", "e", "c", "k", "l", "i", "s", "t">>
s_todo == <<"t", "o", "d", "o">>
s_image == <<"i", "m", "a", "g", "e">>
s_youtube == <<"y", "o", "u", "t", "u", "b", "e">>
s_vimeo == <<"v", "i", "m", "e", "o">>
s_metadata == <<"m", "e", "t", "a", "d", "a", "t", "a">>
s_categories == <<"c", "a", "t", "e", "g", "o", "r", "i", "e", "s">>
s_h == <<"h">>
s_language == <<"l", "a", "n", "g", "u", "a", "g", "e", "-">>
s_div_class == <<"d", "i", "v", " ", "c", "l", "a", "s", "s", " ", "=", " ", "\"">>
s_quote == <<"\"">>
s_by_prefix == <<"\n", "-", "-", " ">>
s_open_link == <<" ", "(", ">">>
s_gt == <<">">>
s_close_link == <<">", ")">>
s_open_paren == <<" ", "(">>
s_close_paren == <<")">>

Text(tag, class, attributes, content) ==
  [kind |-> "Text", tag |-> tag, class |-> class, attributes |-> attributes,
   content |-> content]

TextWrapper(tag, attributes, content) ==
  [kind |-> "TextWrapper", tag |-> tag, attributes |-> attributes,
   content |-> content]

Container(tag, attributes, content) ==
  [kind |-> "Container", tag |-> tag, attributes |-> attributes,
   content |-> content]

Code(tag, attributes, content) ==
  [kind |-> "Code", tag |-> tag, attributes |-> attributes, content |-> content]

Tag(tag, attributes) == [kind |-> "Tag", tag |-> tag, attributes |-> attributes]

Bookmark(attributes, content) ==
  [kind |-> "Bookmark", attributes |-> attributes, content |-> content]

Notes(class, attributes, content) ==
  [kind |-> "Notes", class |-> class, attributes |-> attributes,
   content |-> content]

List(tag, attributes, content) ==
  [kind |-> "List", tag |-> tag, attributes |-> attributes, content |-> content]

Checklist(attributes, prelude, content, todo) ==
  [kind |-> "Checklist", attributes |-> attributes, prelude |-> prelude,
   content |-> content, todo |-> todo]

Image(src, attributes) ==
  [kind |-> "Image", src |-> src, attributes |-> attributes]

Youtube(id) == [kind |-> "Youtube", id |-> id]

Vimeo(id) == [kind |-> "Vimeo", id |-> id]

Hidden(content) == [kind |-> "Hidden", content |-> content]

Metadata(data) == [kind |-> "Metadata", data |-> data]

Categories(categories) == [kind |-> "Categories", categories |-> categories]

\* attr!(attrs, Variant): the argument of the first attribute of the variant
attr_position(attrs, variant) ==
  IF \E i \in 1..Len(attrs) : attrs[i].attr = variant
  THEN CHOOSE i \in 1..Len(attrs) :
         /\ attrs[i].attr = variant
         /\ \A j \in 1..(i - 1) : attrs[j].attr # variant
  ELSE 0

attr_at(attrs, i) == IF i = 0 THEN None ELSE attrs[i].arg

attr(attrs, variant) == attr_at(attrs, attr_position(attrs, variant))

\* has_attr!(attrs, Variant)
has_attr(attrs, variant) == \E i \in 1..Len(attrs) : attrs[i].attr = variant

\* Vec::remove(index)
remove(v, i) == SubSeq(v, 1, i - 1) \o SubSeq(v, i + 1, Len(v))

(***************************************************************************)
(* mod.rs: lists                                                           *)
(***************************************************************************)
\* the entry closure of next_list without its fist_line flag
entry_until_no_first(filter) ==
  [kind |-> "entry", filter |-> filter, fist_line |-> FALSE]

\* the closure next_list hands to next_text_until (mod.rs:268-276)
entry_until(filter) ==
  [kind |-> "entry", filter |-> filter, fist_line |-> TRUE]

RECURSIVE next_list_loop(_, _, _)
\* the end of one turn of next_list's loop (mod.rs:280-281), given the entry
next_list_entry(e, filter, list) ==
  next_list_loop(skip_blanks(e.r), filter, Append(list, e.v))

\* one turn of next_list's loop once peek_line has run (mod.rs:266-279)
next_list_peeked(r, filter, list) ==
  IF is_some(r.peek) /\ list_filter(filter, unwrap(r.peek))
  THEN next_list_entry(
         next_text_until(r, entry_until(filter), FALSE),
         filter, list)
  ELSE [r |-> r, v |-> list]

next_list_loop(r, filter, list) == next_list_peeked(peek_line(r).r, filter, list)

next_list(r, filter) == next_list_loop(skip_blanks(r), filter, <<>>)

\* one turn of next_list's loop (mod.rs:265-282): exit tells whether the
\* loop ended, v is the entry pushed
next_list_turn_entry(e) == [exit |-> FALSE, r |-> skip_blanks(e.r), v |-> e.v]

next_list_turn_peeked(r, filter) ==
  IF is_some(r.peek) /\ list_filter(filter, unwrap(r.peek))
  THEN next_list_turn_entry(next_text_until(r, entry_until(filter), FALSE))
  ELSE [exit |-> TRUE, r |-> r, v |-> <<>>]

next_list_turn(r, filter) == next_list_turn_peeked(peek_line(r).r, filter)

\* entry.strip_prefix(prefix).unwrap() over the entries (mod.rs:292-293);
\* unwrap on None panics
next_list_stripped(l, prefix) ==
  IF \E i \in 1..Len(l.v) : ~starts_with(l.v[i], prefix)
  THEN RErr(l.r, <<"panic", "Option::unwrap() on a None value">>)
  ELSE ROk(l.r, [i \in 1..Len(l.v) |-> unwrap(strip_prefix(l.v[i], prefix))])

next_list_prefixed(r, prefix) ==
  next_list_stripped(next_list(r, [kind |-> "starts_with", prefix |-> prefix]),
                     prefix)

(***************************************************************************)
(* section.rs: Section::parse.  Section_body reads what the marker's arm   *)
(* reads, in the arm's order; Section_of builds the arm's variant.         *)
(***************************************************************************)
\* str::split(c): the pieces between the occurrences of c
RECURSIVE split(_, _)
split(s, c) ==
  IF find(s, c) = 0 THEN <<s>>
  ELSE <<SubSeq(s, 1, find(s, c) - 1)>>
         \o split(SubSeq(s, find(s, c) + Len(c), Len(s)), c)

\* usize as decimal text (format!("{}", n))
digit(d) ==
  CASE d = 0 -> "0" [] d = 1 -> "1" [] d = 2 -> "2" [] d = 3 -> "3"
    [] d = 4 -> "4" [] d = 5 -> "5" [] d = 6 -> "6" [] d = 7 -> "7"
    [] d = 8 -> "8" [] d = 9 -> "9"

RECURSIVE to_string(_)
to_string(n) ==
  IF n < 10 THEN <<digit(n)>> ELSE to_string(n \div 10) \o <<digit(n % 10)>>

map_code_tag(tag) == IF tag = s_css THEN s_style ELSE tag

TextMarkers ==
  {s_title, s_subtitle, s_h1, s_h2, s_h3, s_h4, s_h5, s_h6, s_p, s_nav,
   s_footnote}

SlashMarkers ==
  {s_article \o s_slash, s_section \o s_slash, s_div \o s_slash,
   s_code \o s_slash, s_pre \o s_slash, s_script \o s_slash,
   s_html \o s_slash, s_css \o s_slash}

CodeMarkers == {s_code, s_pre, s_script, s_html, s_css}

\* what an arm has read: the attributes and the content
body(attributes, content) == [attributes |-> attributes, content |-> content]

\* attributes, then content read infallibly
body_read(a, t) == ROk(t.r, body(a.v, t.v))

\* attributes, then content read fallibly
body_tried(a, t) == IF ~t.ok THEN t ELSE ROk(t.r, body(a.v, t.v))

\* source.next_line()?.ok_or(PageParseError::EmptyTitle)? (section.rs:147)
body_title_line(a, n) ==
  IF is_none(n.v) THEN RErr(n.r, <<"EmptyTitle">>)
  ELSE ROk(n.r, body(a.v, unwrap(n.v)))

body_title(a) ==
  IF ~a.ok THEN a ELSE body_title_line(a, next_line(skip_blanks(a.r)))

body_text(a, raw) ==
  IF ~a.ok THEN a ELSE body_read(a, next_text_until_section(a.r, raw))

\* the Class attribute of a fenced block's language (section.rs:118-120)
fenced_attributes(a, language) ==
  IF ~a.ok \/ Len(language) = 0 THEN a
  ELSE ROk(a.r, Append(a.v, [attr |-> "Class",
                             arg |-> Some(s_language \o language)]))

body_until_tag(a, tag) ==
  IF ~a.ok THEN a ELSE body_read(a, next_text_until_tag(a.r, tag, TRUE))

body_list(a, prefix) ==
  IF ~a.ok THEN a ELSE body_tried(a, next_list_prefixed(a.r, prefix))

\* the checklist arm (section.rs:268-275), given the prelude
body_checklist_content(a, prelude, l) ==
  ROk(l.r, [attributes |-> a.v, prelude |-> prelude.v, content |-> l.v])

body_checklist_prelude(a, prelude) ==
  body_checklist_content(a, prelude, next_list(prelude.r, [kind |-> "check"]))

body_checklist(a) ==
  IF ~a.ok THEN a
  ELSE body_checklist_prelude(a, next_text_until(a.r, [kind |-> "check"], FALSE))

body_attrs(a) == IF ~a.ok THEN a ELSE ROk(a.r, body(a.v, <<>>))

\* the image arm (section.rs:278-284), given what next_line_if_map returned
body_image_attrs(src, a) ==
  IF ~a.ok THEN a ELSE ROk(a.r, body(a.v, unwrap(src.v)))

body_image(src) ==
  IF is_none(src.v) THEN RErr(src.r, <<"ExpectedImageSource">>)
  ELSE body_image_attrs(src, next_attrs(src.r))

\* body_video taking an empty id when the reference line is missing
body_video_default(id) ==
  IF is_none(id.v) THEN ROk(id.r, body(<<>>, <<>>))
  ELSE ROk(id.r, body(<<>>, unwrap(id.v)))

body_video(id) ==
  IF is_none(id.v) THEN RErr(id.r, <<"ExpectedVideoID">>)
  ELSE ROk(id.r, body(<<>>, unwrap(id.v)))

body_prefixed(t) == ROk(t.r, body(<<>>, t.v))

RECURSIVE next_sections_loop(_, _, _)
next_sections(r, end_tag) == next_sections_loop(r, end_tag, <<>>)

body_sections(a, tag) ==
  IF ~a.ok THEN a ELSE body_tried(a, next_sections(a.r, Some(tag)))

body_slash(a, tag) ==
  IF tag \in CodeMarkers THEN body_until_tag(a, tag) ELSE body_sections(a, tag)

Section_body(r, section) ==
  CASE starts_with(section, s_fence) ->
         body_until_tag(
           fenced_attributes(next_attrs(r), unwrap(strip_prefix(section, s_fence))),
           s_fence)
    [] section \in {s_title, s_subtitle} -> body_title(next_attrs(r))
    [] section \in TextMarkers \ {s_title, s_subtitle} ->
         body_text(next_attrs(r), FALSE)
    [] section \in {s_aside, s_blockquote, s_ref, s_note, s_warning,
                    s_bookmark} -> body_text(next_attrs(r), FALSE)
    [] section \in SlashMarkers ->
         body_slash(next_attrs(r), unwrap(strip_suffix(section, s_slash)))
    [] section \in CodeMarkers -> body_text(next_attrs(r), TRUE)
    [] section = s_hr -> body_attrs(next_attrs(r))
    [] section \in {s_notes, s_warnings, s_list, s_olist} ->
         body_list(next_attrs(r), s_dash_space)
    [] section \in {s_checklist, s_todo} -> body_checklist(next_attrs(r))
    [] section = s_image ->
         body_image(next_line_if_map(r, [kind |-> "strip_attr_prefix"]))
    [] section \in {s_youtube, s_vimeo} ->
         body_video(next_line_if_map(r, [kind |-> "strip_attr_prefix"]))
    [] section = s_hidden -> body_prefixed(next_text_until_section(r, TRUE))
    [] section \in {s_metadata, s_categories} ->
         body_prefixed(next_text_prefixed(r, s_dashes, TRUE))
    [] OTHER -> RErr(r, <<"UnknownSection", section>>)

\* the blockquote arm's content (section.rs:160-168)
blockquote_source(attributes) ==
  IF is_none(attr(attributes, "Source")) THEN <<>>
  ELSE IF is_some(attr(attributes, "Url"))
  THEN s_open_link \o unwrap(attr(attributes, "Source")) \o s_gt
         \o unwrap(attr(attributes, "Url")) \o s_close_link
  ELSE s_open_paren \o unwrap(attr(attributes, "Source")) \o s_close_paren

blockquote_content(attributes, content) ==
  IF is_none(attr(attributes, "By")) THEN content
  ELSE content \o s_by_prefix \o unwrap(attr(attributes, "By"))
         \o blockquote_source(attributes)

\* the ref arm's title (section.rs:182-185)
ref_title(attributes) ==
  IF is_some(attr(attributes, "Url"))
  THEN s_gt \o unwrap(attr(attributes, "Title")) \o s_gt
         \o unwrap(attr(attributes, "Url")) \o s_gt
  ELSE unwrap(attr(attributes, "Title"))

\* the ref arm's content (section.rs:186-197)
ref_content(attributes, content) ==
  IF is_none(attr(attributes, "Title")) THEN content
  ELSE IF is_some(attr(attributes, "Subtitle"))
  THEN ref_title(attributes) \o s_sp \o unwrap(attr(attributes, "Subtitle"))
         \o s_nl \o content
  ELSE ref_title(attributes) \o s_nl \o content

remove_attr(attributes, variant) ==
  IF has_attr(attributes, variant)
  THEN remove(attributes, attr_position(attributes, variant))
  ELSE attributes

\* the ref arm's attributes (section.rs:188-203)
ref_attributes(attributes) ==
  IF is_none(attr(attributes, "Title")) THEN attributes
  ELSE remove_attr(remove_attr(attributes, "Subtitle"), "Title")

\* the metadata arm's loop (section.rs:302-310) over the lines from index i
RECURSIVE metadata_loop(_, _, _)
metadata_insert(metalines, i, meta, scanned) ==
  IF is_none(scanned) THEN Err(<<"WrongMetadataFormat", metalines[i]>>)
  ELSE metadata_loop(metalines, i + 1,
         [k \in DOMAIN meta \cup {trim(unwrap(scanned)[1])} |->
            IF k = trim(unwrap(scanned)[1]) THEN trim(unwrap(scanned)[2])
            ELSE meta[k]])

metadata_loop(metalines, i, meta) ==
  IF i > Len(metalines) THEN Ok(meta)
  ELSE metadata_insert(metalines, i, meta, sscanf(metalines[i], s_colon))

metadata_of(r, data) ==
  IF ~data.ok THEN RErr(r, data.err) ELSE ROk(r, Metadata(data.v))

\* the categories arm (section.rs:315-320)
categories_of(pieces) == [i \in 1..Len(pieces) |-> trim(pieces[i])]

\* the variant an arm builds from what it has read
Section_built(r, section, b) ==
  CASE starts_with(section, s_fence) -> ROk(r, Code(s_code, b.attributes, b.content))
    [] section \in TextMarkers ->
         ROk(r, Text(
           CASE section = s_title -> s_h1
             [] section = s_subtitle -> s_p
             [] section = s_footnote -> s_p
             [] OTHER -> section,
           IF section \in {s_title, s_subtitle} THEN Some(<<section>>) ELSE None,
           b.attributes, b.content))
    [] section = s_aside -> ROk(r, TextWrapper(section, b.attributes, b.content))
    [] section = s_blockquote ->
         ROk(r, TextWrapper(section, b.attributes,
                            blockquote_content(b.attributes, b.content)))
    [] section = s_ref ->
         ROk(r, TextWrapper(section, ref_attributes(b.attributes),
                            ref_content(b.attributes, b.content)))
    [] section \in {s_note, s_warning} ->
         ROk(r, TextWrapper(s_div_class \o section \o s_quote, b.attributes,
                            b.content))
    [] section \in SlashMarkers /\ unwrap(strip_suffix(section, s_slash)) \in CodeMarkers ->
         ROk(r, Code(map_code_tag(unwrap(strip_suffix(section, s_slash))),
                     b.attributes, b.content))
    [] section \in SlashMarkers /\ unwrap(strip_suffix(section, s_slash)) \notin CodeMarkers ->
         ROk(r, Container(unwrap(strip_suffix(section, s_slash)), b.attributes,
                          b.content))
    [] section \in CodeMarkers ->
         ROk(r, Code(map_code_tag(section), b.attributes, b.content))
    [] section = s_hr -> ROk(r, Tag(section, b.attributes))
    [] section = s_bookmark -> ROk(r, Bookmark(b.attributes, b.content))
    [] section \in {s_notes, s_warnings} ->
         ROk(r, Notes(SubSeq(section, 1, Len(section) - 1), b.attributes,
                      b.content))
    [] section \in {s_list, s_olist} ->
         ROk(r, List(IF section = s_olist THEN s_ol ELSE s_ul, b.attributes,
                     b.content))
    [] section \in {s_checklist, s_todo} ->
         ROk(r, Checklist(b.attributes, b.prelude, b.content, section = s_todo))
    [] section = s_image -> ROk(r, Image(b.content, b.attributes))
    [] section = s_youtube -> ROk(r, Youtube(b.content))
    [] section = s_vimeo -> ROk(r, Vimeo(b.content))
    [] section = s_hidden -> ROk(r, Hidden(b.content))
    [] section = s_metadata ->
         metadata_of(r, metadata_loop(split(b.content, s_nl), 1, <<>>))
    [] section = s_categories ->
         ROk(r, Categories(categories_of(split(b.content, s_nl))))

Section_of(section, b) == IF ~b.ok THEN b ELSE Section_built(b.r, section, b.v)

Section_parse(r, section) == Section_of(section, Section_body(r, section))

(***************************************************************************)
(* mod.rs: next_sections                                                   *)
(***************************************************************************)
\* the end-tag test of next_sections (mod.rs:304-313), given
\* strip_section_prefix(line)
is_end_tag(end_tag, section) ==
  /\ is_some(end_tag)
  /\ is_some(section)
  /\ strip_prefix(unwrap(section), s_slash) = end_tag

\* line.chars().take_while(|&c| c == '#') (mod.rs:321)
RECURSIVE take_while_hash(_)
take_while_hash(line) ==
  IF starts_with(line, s_hash) THEN s_hash \o take_while_hash(Tail(line))
  ELSE <<>>

\* a section pushed by next_sections, then the next turn of the loop
next_sections_push(s, end_tag, sections) ==
  IF ~s.ok THEN s ELSE next_sections_loop(s.r, end_tag, Append(sections, s.v))

\* the heading arm (mod.rs:320-341), given the prefix
heading_section(prefix, t) ==
  ROk(t.r, Text(s_h \o to_string(Len(prefix)), None, <<>>, t.v))

next_sections_heading(r, prefix) ==
  heading_section(prefix, next_text(r, [kind |-> "heading", prefix |-> prefix],
                                    FALSE))

\* the paragraph arm (mod.rs:346-352)
paragraph_section(t) == ROk(t.r, Text(s_p, None, <<>>, t.v))

\* the arms of next_sections (mod.rs:320-353), given
\* strip_section_prefix(line)
next_sections_arm(r, line, section) ==
  IF starts_with(line, s_hash)
  THEN next_sections_heading(r, take_while_hash(line))
  ELSE IF is_some(section) THEN Section_parse(next_line(r).r, unwrap(section))
  ELSE paragraph_section(next_text_until(r, [kind |-> "section"], FALSE))

\* one turn of next_sections' loop, given strip_section_prefix(line)
next_sections_line(r, line, section, end_tag, sections) ==
  IF is_end_tag(end_tag, section) THEN ROk(next_line(r).r, sections)
  ELSE next_sections_push(next_sections_arm(r, line, section), end_tag, sections)

\* next_sections_peeked raising an error when the input ends inside a container
next_sections_peeked_strict(r, end_tag, sections) ==
  IF is_none(r.peek)
  THEN (IF is_some(end_tag) THEN RErr(r, <<"UnknownSection", s_slash \o unwrap(end_tag)>>)
        ELSE ROk(r, sections))
  ELSE next_sections_line(r, unwrap(r.peek), strip_section_prefix(unwrap(r.peek)),
                          end_tag, sections)

\* one turn of next_sections' loop once peek_line has run (mod.rs:303-318)
next_sections_peeked(r, end_tag, sections) ==
  IF is_none(r.peek) THEN ROk(r, sections)
  ELSE next_sections_line(r, unwrap(r.peek), strip_section_prefix(unwrap(r.peek)),
                          end_tag, sections)

next_sections_loop(r, end_tag, sections) ==
  next_sections_peeked(peek_line(skip_blanks(r)).r, end_tag, sections)

(***************************************************************************)
(* mod.rs: one turn of next_sections' loop.  exit tells whether the loop   *)
(* ended, s is the section pushed (or the error).                          *)
(***************************************************************************)
next_sections_turn_line(r, line, section, end_tag) ==
  IF is_end_tag(end_tag, section)
  THEN [exit |-> TRUE, s |-> ROk(next_line(r).r, <<>>)]
  ELSE [exit |-> FALSE, s |-> next_sections_arm(r, line, section)]

next_sections_turn_peeked(r, end_tag) ==
  IF is_none(r.peek) THEN [exit |-> TRUE, s |-> ROk(r, <<>>)]
  ELSE next_sections_turn_line(r, unwrap(r.peek),
                               strip_section_prefix(unwrap(r.peek)), end_tag)

next_sections_turn(r, end_tag) ==
  next_sections_turn_peeked(peek_line(skip_blanks(r)).r, end_tag)

\* Page::new (mod.rs:59-63): the sections, or the error
Page_new_of(s) == IF ~s.ok THEN Err(s.err) ELSE Ok([sections |-> s.v])

Page_new(src) == Page_new_of(next_sections(Reader_new(src), None))

(***************************************************************************)
(* section.rs, attribute.rs: emission of a Code section                    *)
(***************************************************************************)
s_amp == <<"&", "a", "m", "p", ";">>
s_amp_gt == <<"&", "g", "t", ";">>
s_lt == <<"&", "l", "t", ";">>
s_open_pre == <<"<", "p", "r", "e", ">">>
s_open_code == <<"<", "c", "o", "d", "e">>
s_close_code == <<"<", "/", "c", "o", "d", "e", ">", "<", "/", "p", "r", "e", ">">>
s_open == <<"<">>
s_open_close == <<"<", "/">>
s_eq_quote == <<"=", "\"">>

\* escape_html with the & pass run last instead of first
escape_html_amp_last(code) ==
  replace_char(replace_char(replace_char(code, "<", s_lt), ">", s_amp_gt),
               "&", s_amp)

escape_html(code) ==
  replace_char(replace_char(replace_char(code, "&", s_amp), "<", s_lt),
               ">", s_amp_gt)

\* format!("name=\"{arg}\"")
attr_html(name, a) == Some(name \o s_eq_quote \o unwrap(a.arg) \o s_quote)

Attribute_to_html(a) ==
  CASE a.attr = "Alt" -> attr_html(s_alt, a)
    [] a.attr = "Class" -> attr_html(s_class, a)
    [] a.attr = "Hidden" -> Some(s_hidden)
    [] a.attr = "Id" -> attr_html(s_id, a)
    [] a.attr = "Show" -> None
    [] a.attr = "Src" -> attr_html(s_src, a)
    [] a.attr = "Title" -> attr_html(s_title, a)
    [] a.attr = "Subtitle" -> None
    [] a.attr = "By" -> None
    [] a.attr = "Source" -> None
    [] a.attr = "Url" -> None

\* attributes!: one turn of the loop, given attr.to_html()
attributes_push(attrs, html) ==
  IF is_some(html) THEN attrs \o s_sp \o unwrap(html) ELSE attrs

RECURSIVE attributes_loop(_, _, _)
attributes_loop(attributes, i, attrs) ==
  IF i > Len(attributes) THEN attrs
  ELSE attributes_loop(attributes, i + 1,
         attributes_push(attrs, Attribute_to_html(attributes[i])))

attributes_macro(attributes) == attributes_loop(attributes, 1, <<>>)

\* title!: text_html is text_to_html(project_root, &title), which the
\* caller supplies
title_macro(attributes, tag, text_html) ==
  IF is_some(attr(attributes, "Title"))
  THEN s_open \o tag \o s_gt \o text_html \o s_open_close \o tag \o s_gt
  ELSE <<>>

format_code(content, title, attributes) ==
  s_open_pre \o title \o s_open_code \o attributes \o s_gt
    \o escape_html(content) \o s_close_code

\* the escaped copy of the Code arm (section.rs:427-431)
Code_shown(section, title) ==
  IF has_attr(section.attributes, "Show")
  THEN format_code(section.content, title, <<>>)
  ELSE <<>>

\* the Code arm of Section::to_html (section.rs:420-434); title is
\* title!(attributes)
Code_to_html(section, title) ==
  IF section.tag = s_code
  THEN format_code(section.content, title, attributes_macro(section.attributes))
  ELSE s_open \o section.tag \o attributes_macro(section.attributes) \o s_gt
         \o section.content \o s_open_close \o section.tag \o s_gt
         \o Code_shown(section, title)

(***************************************************************************)
(* The state machine.  source is the input (its lines), reader the Reader  *)
(* over it, call the operation applied last (its name, then its            *)
(* arguments), result what that call returned and before the reader the    *)
(* call started from.                                                      *)
(***************************************************************************)
SeqsUpTo(S, n) == UNION {[1..k -> S] : k \in 0..n}

\* the lines of the source still to be handed out, in order
remaining(r) == r.peek \o r.lines

failed == call[1] \in {"next_attr", "next_attrs"} /\ ~result.ok

(***************************************************************************)
(* SpecCursor: a Reader over a short input, driven through its operations  *)
(* in any order, as Section::parse and next_sections drive it.             *)
(***************************************************************************)
MaxCursorLines == 3

l_text == <<"x">>
l_blank == <<>>
l_id == <<"-", "-", "i", "d", ":", " ", "a">>
l_show == <<"-", "-", " ", "s", "h", "o", "w", " ">>
l_unknown == <<"-", "-", " ", "p", " ">>
l_missing == <<"-", "-", "i", "d">>

CursorLines == {l_text, l_blank, l_id, l_show, l_unknown, l_missing}

CursorPreds == {"blank", "has_attr_prefix", "has_section_prefix"}

CursorMaps ==
  { [kind |-> "strip_attr_prefix"],
    [kind |-> "until", u |-> [kind |-> "section"]],
    [kind |-> "prefixed", prefix |-> s_dashes, raw |-> TRUE] }

InitCursor ==
  /\ source \in SeqsUpTo(CursorLines, MaxCursorLines)
  /\ reader = Reader_new(source)
  /\ call = <<"new">>
  /\ result = None
  /\ before = reader

Apply(name, out, value) ==
  /\ reader' = out
  /\ call' = name
  /\ result' = value
  /\ before' = reader
  /\ UNCHANGED source

PeekLine ==
  /\ ~failed
  /\ LET o == peek_line(reader) IN Apply(<<"peek_line">>, o.r, o.v)

NextLine ==
  /\ ~failed
  /\ LET o == next_line(reader) IN Apply(<<"next_line">>, o.r, o.v)

NextLineIf ==
  /\ ~failed
  /\ \E p \in CursorPreds :
       LET o == next_line_if(reader, p) IN Apply(<<"next_line_if", p>>, o.r, o.v)

NextLineIfMap ==
  /\ ~failed
  /\ \E f \in CursorMaps :
       LET o == next_line_if_map(reader, f)
       IN Apply(<<"next_line_if_map", f>>, o.r, o.v)

SkipBlank ==
  /\ ~failed
  /\ LET o == skip_blank(reader) IN Apply(<<"skip_blank">>, o.r, o.v)

SkipBlanks ==
  /\ ~failed
  /\ Apply(<<"skip_blanks">>, skip_blanks(reader), None)

NextAttr ==
  /\ ~failed
  /\ LET o == next_attr(reader) IN Apply(<<"next_attr">>, o.r, o)

NextAttrs ==
  /\ ~failed
  /\ LET o == next_attrs(reader) IN Apply(<<"next_attrs">>, o.r, o)

NextCursor ==
  \/ PeekLine
  \/ NextLine
  \/ NextLineIf
  \/ NextLineIfMap
  \/ SkipBlank
  \/ SkipBlanks
  \/ NextAttr
  \/ NextAttrs

SpecCursor == InitCursor /\ [][NextCursor]_vars

\* C2: a non-advancing cursor operation leaves the logical position unchanged.
\* After peek_line, and after a next_line_if / next_line_if_map that returned
\* None (the predicate or map rejected the peeked line, or no line remains),
\* next_line returns the line it would have returned before the call and the
\* lines still to be handed out are the same; a second peek returns what the
\* first returned.
C2_NonAdvancing ==
  (\/ call[1] = "peek_line"
   \/ call[1] \in {"next_line_if", "next_line_if_map"} /\ is_none(result))
  => /\ next_line(reader).v = next_line(before).v
     /\ remaining(reader) = remaining(before)
     /\ peek_line(reader).v = peek_line(before).v
     /\ call[1] = "peek_line" => peek_line(reader).v = result

\* a map rejected a line that the call itself fetched from the line source
C2_Witness ==
  /\ call[1] = "next_line_if_map"
  /\ is_none(result)
  /\ is_none(before.peek)
  /\ is_some(reader.peek)

\* the marker lines of CursorLines whose name Attribute::parse does not know
UnknownMarkerLines == {l_unknown}

\* C4: an unrecognized attribute name is no failure of attribute collection.
\* A successful next_attrs returns the attributes of the marker lines it
\* consumed, in order, and leaves every other line; when the line it stopped
\* at is a marker with an unrecognized name, that line is the cursor's next
\* line, unstripped.
C4_UnknownAttribute ==
  (call[1] = "next_attrs" /\ result.ok)
  => LET L == remaining(before)
         n == Len(result.v)
     IN /\ n <= Len(L)
        /\ remaining(reader) = SubSeq(L, n + 1, Len(L))
        /\ \A i \in 1..n :
             /\ has_attr_prefix(L[i])
             /\ Attribute_parse(unwrap(strip_attr_prefix(L[i])))
                  = Ok(Some(result.v[i]))
        /\ (n < Len(L) /\ L[n + 1] \in UnknownMarkerLines)
             => /\ Attribute_parse(unwrap(strip_attr_prefix(L[n + 1]))) = Ok(None)
                /\ reader.peek = Some(L[n + 1])
                /\ next_line(reader).v = Some(L[n + 1])

\* next_attrs collected an attribute and stopped at an unrecognized marker
C4_Witness ==
  /\ call[1] = "next_attrs"
  /\ result.ok
  /\ Len(result.v) > 0
  /\ reader.peek = Some(l_unknown)

(***************************************************************************)
(* SpecAttribute: Attribute::parse applied to one marker line body.        *)
(***************************************************************************)
s_bogus == <<"b", "o", "g", "u", "s">>

AttrNames ==
  {s_alt, s_class, s_hidden, s_id, s_show, s_src, s_title, s_subtitle, s_by,
   s_source, s_url, s_bogus}

AttrValues == {<<"x">>, <<"a", " ", "b">>, <<"a", ":", " ", "b">>}

AttrBodies ==
  AttrNames
    \cup {n \o s_colon_space \o v : n \in AttrNames, v \in AttrValues}
    \cup {n \o s_colon \o v : n \in AttrNames, v \in AttrValues}

InitAttribute ==
  /\ source \in {<<b>> : b \in AttrBodies}
  /\ reader = Reader_new(<<>>)
  /\ call = <<"new">>
  /\ result = None
  /\ before = reader

ParseAttribute ==
  /\ call = <<"new">>
  /\ call' = <<"Attribute::parse", source[1]>>
  /\ result' = Attribute_parse(source[1])
  /\ UNCHANGED <<source, reader, before>>

NextAttribute == ParseAttribute

SpecAttribute == InitAttribute /\ [][NextAttribute]_vars

\* the names that take an argument, and those that take none, with the
\* variant each yields
ArgumentNames ==
  {<<s_alt, "Alt">>, <<s_class, "Class">>, <<s_id, "Id">>, <<s_src, "Src">>,
   <<s_title, "Title">>, <<s_subtitle, "Subtitle">>, <<s_by, "By">>,
   <<s_source, "Source">>, <<s_url, "Url">>}

FlagNames == {<<s_hidden, "Hidden">>, <<s_show, "Show">>}

\* C3: Attribute::parse enforces argument arity.  For an argument-bearing
\* name, `name: value` yields the variant carrying exactly value and the bare
\* name fails with MissingAttributeArgument(name); for an argument-free name
\* the bare name yields the variant and `name: value` fails with
\* UnexpectedArgument(value, name).
C3_AttributeArity ==
  call[1] = "Attribute::parse"
  => /\ \A n \in ArgumentNames :
          /\ call[2] = n[1]
               => result = Err(<<"MissingAttributeArgument", n[1]>>)
          /\ \A v \in AttrValues :
               call[2] = n[1] \o s_colon_space \o v
               => result = Ok(Some([attr |-> n[2], arg |-> Some(v)]))
     /\ \A n \in FlagNames :
          /\ call[2] = n[1] => result = Ok(Some([attr |-> n[2], arg |-> None]))
          /\ \A v \in AttrValues :
               call[2] = n[1] \o s_colon_space \o v
               => result = Err(<<"UnexpectedArgument", v, n[1]>>)

\* a bare argument-bearing name was parsed and refused
C3_Witness ==
  /\ call[1] = "Attribute::parse"
  /\ call[2] = s_url
  /\ ~result.ok

(***************************************************************************)
(* SpecText: the text accumulator over a short input, called as            *)
(* next_text_until_section and next_text_until_tag call it, flowed and     *)
(* raw; next_line moves past the line an accumulation stopped at.          *)
(***************************************************************************)
MaxTextLines == 4

t_a == <<"a">>
t_b == <<" ", "b", " ">>
t_spaces == <<" ">>
t_marker == <<"-", "-", "x">>
t_end == <<"-", "-", "/", "c", "o", "d", "e">>

TextLines == {t_a, t_b, l_blank, t_spaces, t_marker, t_end}

InitText ==
  /\ source \in SeqsUpTo(TextLines, MaxTextLines)
  /\ reader = Reader_new(source)
  /\ call = <<"new">>
  /\ result = None
  /\ before = reader

TextNextLine ==
  /\ LET o == next_line(reader) IN Apply(<<"next_line">>, o.r, o.v)

TextUntilSection ==
  /\ \E raw \in BOOLEAN :
       LET o == next_text_until_section(reader, raw)
       IN Apply(<<"next_text_until", [kind |-> "section"], raw>>, o.r, o.v)

TextUntilTag ==
  /\ \E raw \in BOOLEAN :
       LET o == next_text_until_tag(reader, s_code, raw)
       IN Apply(<<"next_text_until", [kind |-> "tag", tag |-> s_code], raw>>,
                o.r, o.v)

NextText ==
  \/ TextNextLine
  \/ TextUntilSection
  \/ TextUntilTag

SpecText == InitText /\ [][NextText]_vars

is_blank(line) == Len(trim(line)) = 0

\* the lines at the head of L that the until-closure u lets through
RECURSIVE AcceptedPrefix(_, _)
AcceptedPrefix(u, L) ==
  IF Len(L) = 0 \/ until(u, L[1]).v THEN <<>>
  ELSE <<L[1]>> \o AcceptedPrefix(u, Tail(L))

\* the lines of P joined by sep
RECURSIVE Join(_, _)
Join(P, sep) ==
  IF Len(P) = 0 THEN <<>>
  ELSE IF Len(P) = 1 THEN P[1]
  ELSE P[1] \o sep \o Join(Tail(P), sep)

Newlines(k) == [i \in 1..k |-> "\n"]

CountNewlines(text) == Cardinality({i \in 1..Len(text) : text[i] = "\n"})

\* the lines a text accumulation was offered and let through
Offered == AcceptedPrefix(call[2], remaining(before))

FlowedCall == call[1] = "next_text_until" /\ ~call[3]
RawCall == call[1] = "next_text_until" /\ call[3]

\* P is a run of non-blank lines, i blank lines, a run of non-blank lines
TwoRuns(P, i, j) ==
  /\ 1 <= i /\ i < j /\ j < Len(P)
  /\ \A k \in 1..Len(P) : is_blank(P[k]) <=> (i < k /\ k <= j)

\* C5 as stated: two runs of non-blank lines separated by one or more blank
\* lines flow to a text with exactly one newline between the runs.
C5_SingleNewline ==
  FlowedCall
  => \A i, j \in 1..Len(Offered) :
       TwoRuns(Offered, i, j)
       => /\ CountNewlines(result) = 1
          /\ result = trim(Join(SubSeq(Offered, 1, i), s_sp) \o s_nl
                            \o Join(SubSeq(Offered, j + 1, Len(Offered)), s_sp))

\* C5 amended: two runs of non-blank lines separated by k >= 1 blank lines
\* flow to the first run joined by spaces, k newlines (one for each blank
\* line), and the second run joined by spaces, trimmed.
C5_NewlinePerBlankLine ==
  FlowedCall
  => \A i, j \in 1..Len(Offered) :
       TwoRuns(Offered, i, j)
       => /\ CountNewlines(result) = j - i
          /\ result = trim(Join(SubSeq(Offered, 1, i), s_sp) \o Newlines(j - i)
                            \o Join(SubSeq(Offered, j + 1, Len(Offered)), s_sp))

\* two runs separated by two blank lines were flowed
C5_Witness ==
  /\ FlowedCall
  /\ \E i \in 1..Len(Offered) : TwoRuns(Offered, i, i + 2)

\* C6: consecutive non-blank lines let through by the continuation predicate,
\* no blank line among them, flow to the lines joined in order by exactly one
\* space, trimmed of leading and trailing whitespace; the reader is left at
\* the line after them.
C6_FlowedJoin ==
  (FlowedCall /\ \A k \in 1..Len(Offered) : ~is_blank(Offered[k]))
  => /\ result = trim(Join(Offered, s_sp))
     /\ call[2].kind = "section"
          => remaining(reader)
               = SubSeq(remaining(before), Len(Offered) + 1,
                        Len(remaining(before)))

\* three non-blank lines were flowed
C6_Witness ==
  /\ FlowedCall
  /\ Len(Offered) >= 3
  /\ \A k \in 1..Len(Offered) : ~is_blank(Offered[k])

\* C7 as stated: raw accumulation of N non-blank lines yields the lines
\* verbatim, each followed by a newline, less only the final newline.
C7_RawVerbatim ==
  (RawCall /\ \A k \in 1..Len(Offered) : ~is_blank(Offered[k]))
  => result = Join(Offered, s_nl)

\* C7 amended: raw accumulation of N non-blank lines yields the lines
\* verbatim, each followed by a newline, less the trailing whitespace of
\* the whole text: the final newline and the whitespace ending the last line.
C7_RawTrimEnd ==
  (RawCall /\ \A k \in 1..Len(Offered) : ~is_blank(Offered[k]))
  => result = trim_end(Join(Offered, s_nl))

\* two non-blank lines were accumulated raw, the first opening with a space
C7_Witness ==
  /\ RawCall
  /\ Len(Offered) >= 2
  /\ \A k \in 1..Len(Offered) : ~is_blank(Offered[k])
  /\ Offered[1] = t_b

(***************************************************************************)
(* SpecHeading: Page::new over short inputs of heading lines of several    *)
(* depths, text lines and blank lines.                                     *)
(***************************************************************************)
MaxHeadingLines == 4

h_a == <<"#", " ", "a">>
h_b == <<"#", " ", "b">>
hh_c == <<"#", "#", " ", "c">>
hhh_d == <<"#", "#", "#", "d">>

HeadingLines == {h_a, h_b, hh_c, hhh_d, l_text, l_blank}

InitHeading ==
  /\ source \in SeqsUpTo(HeadingLines, MaxHeadingLines)
  /\ reader = Reader_new(source)
  /\ call = <<"new">>
  /\ result = None
  /\ before = reader

ParsePage ==
  /\ call = <<"new">>
  /\ call' = <<"Page::new">>
  /\ result' = Page_new(source)
  /\ UNCHANGED <<source, reader, before>>

NextHeading == ParsePage

SpecHeading == InitHeading /\ [][NextHeading]_vars

\* the length of the run of # a line starts with
Depth(line) ==
  CHOOSE d \in 0..Len(line) :
    /\ \A i \in 1..d : line[i] = "#"
    /\ d = Len(line) \/ line[d + 1] # "#"

\* the line less its first n characters
Drop(line, n) == SubSeq(line, n + 1, Len(line))

\* the first non-blank line after the first line (past the end: none)
Following ==
  CHOOSE j \in 2..(Len(source) + 1) :
    /\ \A i \in 2..(j - 1) : is_blank(source[i])
    /\ j <= Len(source) => ~is_blank(source[j])

Parsed == call[1] = "Page::new"

HeadingFirst == Parsed /\ Len(source) > 0 /\ Depth(source[1]) > 0

\* the page's first section is a heading of the first line alone, and the
\* line Following starts the sections after it
TerminatedAtFollowing ==
  /\ result.ok
  /\ result.v.sections[1]
       = Text(s_h \o to_string(Depth(source[1])), None, <<>>,
              trim(Drop(source[1], Depth(source[1]))))
  /\ Tail(result.v.sections)
       = Page_new(SubSeq(source, Following, Len(source))).v.sections

\* the page's first section is a heading whose content goes on with the
\* line Following, less its run of #
AbsorbedFollowing ==
  /\ result.ok
  /\ result.v.sections[1].tag = s_h \o to_string(Depth(source[1]))
  /\ starts_with(result.v.sections[1].content,
       trim(Drop(source[1], Depth(source[1]))
              \o (IF Following = 2 THEN s_sp ELSE Newlines(Following - 2))
              \o Drop(source[Following], Depth(source[1]))))

\* C10 as stated: a line starting with a run of n # opens a heading of level
\* n, and a following non-blank line starting with a run of n or more #
\* ends the heading's text and starts a new section.
C10_EqualOrDeeperTerminates ==
  (HeadingFirst /\ Following <= Len(source)
     /\ Depth(source[Following]) >= Depth(source[1]))
  => TerminatedAtFollowing

\* C10 amended: a line starting with a run of n # opens a heading of level
\* n; a following non-blank line ends the heading's text and starts a new
\* section when its run of # is deeper or shallower than n or it has none,
\* and a following line whose run of # is exactly n is absorbed into the
\* heading's content, less the run.
C10_OtherDepthTerminates ==
  (HeadingFirst /\ Following <= Len(source))
  => IF Depth(source[Following]) # Depth(source[1])
     THEN TerminatedAtFollowing
     ELSE AbsorbedFollowing

\* a heading followed by a deeper one was parsed
C10_Witness ==
  /\ HeadingFirst
  /\ source = <<h_a, hh_c, l_text>>

(***************************************************************************)
(* SpecCode: Section::parse for every marker of the code family over a    *)
(* short input, then Section::to_html for the Code section it returned.    *)
(***************************************************************************)
MaxCodeLines == 4

c_text == <<"a", "<", "&", ">">>
c_hash == <<"#", " ", "h">>
c_show == <<"-", "-", "s", "h", "o", "w">>
c_end == <<"-", "-", "/", "c", "o", "d", "e">>
s_rs == <<"r", "s">>

CodeLines == {c_text, l_blank, c_hash, c_show, c_end, s_fence}

FencedSections == {s_fence, s_fence \o s_rs}

CodeSections ==
  CodeMarkers \cup {m \o s_slash : m \in CodeMarkers} \cup FencedSections

InitCode ==
  /\ source \in SeqsUpTo(CodeLines, MaxCodeLines)
  /\ reader = Reader_new(source)
  /\ call = <<"new">>
  /\ result = None
  /\ before = reader

\* the Result of a fallible Reader operation, without the reader
outcome(o) == IF o.ok THEN Ok(o.v) ELSE Err(o.err)

ParseSection ==
  /\ call = <<"new">>
  /\ \E section \in CodeSections :
       LET o == Section_parse(reader, section)
       IN Apply(<<"Section::parse", section>>, o.r, outcome(o))

CodeToHtml ==
  /\ call[1] = "Section::parse"
  /\ result.ok
  /\ result.v.kind = "Code"
  /\ ~has_attr(result.v.attributes, "Title")
  /\ Apply(<<"to_html", result.v>>, reader,
           Ok(Code_to_html(result.v, title_macro(result.v.attributes, s_h4, <<>>))))

NextCode ==
  \/ ParseSection
  \/ CodeToHtml

SpecCode == InitCode /\ [][NextCode]_vars

ParsedCode == call[1] = "Section::parse"

\* the attribute lines after the opening line: here, the leading --show lines
AttributeCount ==
  CHOOSE k \in 0..Len(source) :
    /\ \A i \in 1..k : source[i] = c_show
    /\ k = Len(source) \/ source[k + 1] # c_show

\* the first line of the block's content: past the attribute lines and the
\* blank lines after them
ContentStart ==
  CHOOSE k \in (AttributeCount + 1)..(Len(source) + 1) :
    /\ \A i \in (AttributeCount + 1)..(k - 1) : is_blank(source[i])
    /\ k <= Len(source) => ~is_blank(source[k])

\* the tag a marker of the code family names
CodeTag(section) ==
  IF section \in FencedSections THEN s_code
  ELSE IF ends_with(section, s_slash) THEN SubSeq(section, 1, Len(section) - 1)
  ELSE section

\* the block's explicit end line: the closing fence, or the end tag
ExplicitEnd(section, line) ==
  IF section \in FencedSections THEN line = s_fence
  ELSE line = s_dashes \o s_slash \o CodeTag(section)

\* a structural marker line or a # line
StructuralLine(line) ==
  \/ starts_with(line, s_dashes)
  \/ starts_with(line, s_fence)
  \/ starts_with(line, s_hash)

\* the first line from ContentStart on that is an explicit end (past the
\* end of the input: none)
FirstExplicitEnd ==
  CHOOSE k \in ContentStart..(Len(source) + 1) :
    /\ \A i \in ContentStart..(k - 1) : ~ExplicitEnd(call[2], source[i])
    /\ k <= Len(source) => ExplicitEnd(call[2], source[k])

FirstStructuralLine ==
  CHOOSE k \in ContentStart..(Len(source) + 1) :
    /\ \A i \in ContentStart..(k - 1) : ~StructuralLine(source[i])
    /\ k <= Len(source) => StructuralLine(source[k])

\* the lines from ContentStart up to line k, verbatim, a newline after each,
\* less the trailing whitespace
RawContent(k) == trim_end(Join(SubSeq(source, ContentStart, k - 1), s_nl))

\* the section read is a Code section of content RawContent(k), and the
\* reader is left at line next
ReadUpTo(k, next) ==
  /\ result.ok
  /\ result.v.kind = "Code"
  /\ result.v.content = RawContent(k)
  /\ remaining(reader) = SubSeq(source, next, Len(source))

\* C8 as stated: every section of the code family, in plain form, slash form
\* and fenced, reads its raw content up to the explicit end tag or closing
\* fence; no other line ends the content.
C8_ExplicitEndOnly ==
  ParsedCode
  => ReadUpTo(FirstExplicitEnd,
              IF FirstExplicitEnd > Len(source) THEN FirstExplicitEnd
              ELSE FirstExplicitEnd + 1)

\* C8 amended: a slash-form or fenced section of the code family reads its
\* raw content up to its end tag or closing fence (or the end of the input)
\* and consumes that line, no other line ending the content; a plain-form
\* section reads its raw content up to the next structural marker line or #
\* line (or the end of the input), which it leaves to the caller.
C8_PlainEndsAtMarker ==
  ParsedCode
  => IF call[2] \in CodeMarkers
     THEN ReadUpTo(FirstStructuralLine, FirstStructuralLine)
     ELSE ReadUpTo(FirstExplicitEnd,
                   IF FirstExplicitEnd > Len(source) THEN FirstExplicitEnd
                   ELSE FirstExplicitEnd + 1)

\* a slash-form block holding a # line and a fence before its end tag was
\* read
C8_Witness ==
  /\ ParsedCode
  /\ call[2] = s_code \o s_slash
  /\ source = <<c_text, c_hash, s_fence, c_end>>

\* the text with each reserved character as its entity
Escaped(text) ==
  IF Len(text) = 0 THEN <<>>
  ELSE LET entity(c) == CASE c = "&" -> s_amp [] c = "<" -> s_lt
                          [] c = ">" -> s_amp_gt [] OTHER -> <<c>>
           pieces == [i \in 1..Len(text) |-> entity(text[i])]
           concat[i \in 0..Len(text)] ==
             IF i = 0 THEN <<>> ELSE concat[i - 1] \o pieces[i]
       IN concat[Len(text)]

\* m is a sequence of tags: <...><...>
RECURSIVE IsMarkup(_)
IsMarkup(m) ==
  \/ Len(m) = 0
  \/ /\ m[1] = "<"
     /\ \E j \in 2..Len(m) :
          /\ m[j] = ">"
          /\ \A i \in 2..(j - 1) : m[i] \notin {"<", ">"}
          /\ IsMarkup(SubSeq(m, j + 1, Len(m)))

\* html is the text between two sequences of tags
Wrapped(html, text) ==
  \E i \in 0..(Len(html) - Len(text)) :
    /\ SubSeq(html, i + 1, i + Len(text)) = text
    /\ IsMarkup(SubSeq(html, 1, i))
    /\ IsMarkup(SubSeq(html, i + Len(text) + 1, Len(html)))

\* html is a sequence of tags, the raw text, and rest
RawThen(html, text, show) ==
  \E i \in 1..(Len(html) - Len(text)) :
    \E j \in (i + Len(text))..Len(html) :
      /\ IsMarkup(SubSeq(html, 1, i))
      /\ SubSeq(html, i + 1, i + Len(text)) = text
      /\ IsMarkup(SubSeq(html, i + Len(text) + 1, j))
      /\ j > i + Len(text)
      /\ IF show THEN Wrapped(SubSeq(html, j + 1, Len(html)), Escaped(text))
         ELSE j = Len(html)

Emitted == call[1] = "to_html"

\* C9 as stated: every Code section emits its content HTML-escaped: the
\* emitted HTML is the escaped content between tags, so that a reserved
\* character of the content appears only as its entity.
C9_AllEscaped == Emitted => Wrapped(result.v, Escaped(call[2].content))

\* C9 amended: a Code section of tag code (plain, slash form or fenced) emits
\* its content HTML-escaped between its tags; a Code section of tag pre,
\* script, html or style emits its content verbatim between its tags,
\* followed by an HTML-escaped copy in pre and code tags only when it has
\* the show attribute.
C9_CodeTagEscaped ==
  Emitted
  => IF call[2].tag = s_code
     THEN Wrapped(result.v, Escaped(call[2].content))
     ELSE RawThen(result.v, call[2].content, has_attr(call[2].attributes, "Show"))

\* a code section whose content has reserved characters was emitted
C9_Witness ==
  /\ Emitted
  /\ find(call[2].content, c_text) > 0
  /\ call[2].tag = s_code

(***************************************************************************)
(* SpecNesting: Page::new over short inputs of container opening and       *)
(* closing markers, section markers and text lines.                        *)
(***************************************************************************)
MaxNestLines == 5

n_p == s_dashes \o s_p
n_checklist == s_dashes \o s_checklist

ContainerTags == {s_div, s_section}

Open(T) == s_dashes \o T \o s_slash
Close(T) == s_dashes \o s_slash \o T

NestLines ==
  {Open(T) : T \in ContainerTags} \cup {Close(T) : T \in ContainerTags}
    \cup {n_p, n_checklist, l_text}

InitNesting ==
  /\ source \in SeqsUpTo(NestLines, MaxNestLines)
  /\ reader = Reader_new(source)
  /\ call = <<"new">>
  /\ result = None
  /\ before = reader

NextNesting == ParsePage

SpecNesting == InitNesting /\ [][NextNesting]_vars

\* every close marker of the lines closes the innermost container the lines
\* opened, and none is left open: open is the tags open so far, innermost
\* first
RECURSIVE Balanced(_, _)
Balanced(lines, open) ==
  IF Len(lines) = 0 THEN Len(open) = 0
  ELSE IF \E T \in ContainerTags : lines[1] = Open(T)
  THEN Balanced(Tail(lines),
                <<CHOOSE T \in ContainerTags : lines[1] = Open(T)>> \o open)
  ELSE IF \E T \in ContainerTags : lines[1] = Close(T)
  THEN /\ Len(open) > 0
       /\ lines[1] = Close(open[1])
       /\ Balanced(Tail(lines), Tail(open))
  ELSE Balanced(Tail(lines), open)

\* the source is --T/, section lines, the --/T closing it at line k, and the
\* lines after it
Enclosed(T, k) ==
  /\ source[1] = Open(T)
  /\ source[k] = Close(T)
  /\ Balanced(SubSeq(source, 2, k - 1), <<>>)
  /\ Page_new(SubSeq(source, 2, k - 1)).ok

\* C1: a --T/ line, section lines, and the --/T line closing it parse to one
\* Container of tag T whose children are the sections written between the
\* two markers, in order; the close marker is consumed, it closes the
\* innermost open container of its tag, and the sections after it are
\* siblings of the container.
C1_ContainerNesting ==
  Parsed
  => \A T \in ContainerTags : \A k \in 2..Len(source) :
       Enclosed(T, k)
       => IF Page_new(SubSeq(source, k + 1, Len(source))).ok
          THEN result
                 = Ok([sections |->
                         <<Container(T, <<>>,
                             Page_new(SubSeq(source, 2, k - 1)).v.sections)>>
                           \o Page_new(SubSeq(source, k + 1, Len(source))).v.sections])
          ELSE ~result.ok

\* a container holding a checklist without entries, then its close marker
\* and a paragraph, was parsed
C1_Witness ==
  /\ Parsed
  /\ source = <<Open(s_div), n_checklist, Close(s_div), n_p, l_text>>

(***************************************************************************)
(* SpecUnknown: Page::new over short inputs holding marker lines whose     *)
(* keyword is no section kind.                                             *)
(***************************************************************************)
MaxUnknownLines == 4

u_bogus == <<"-", "-", "b", "o", "g", "u", "s">>
u_oops == <<"-", "-", " ", "o", "o", "p", "s", " ">>

UnknownLines == {u_bogus, u_oops, n_p, n_checklist, c_hash, l_text}

InitUnknown ==
  /\ source \in SeqsUpTo(UnknownLines, MaxUnknownLines)
  /\ reader = Reader_new(source)
  /\ call = <<"new">>
  /\ result = None
  /\ before = reader

NextUnknown == ParsePage

SpecUnknown == InitUnknown /\ [][NextUnknown]_vars

\* the closed set of section kinds
SectionKinds ==
  TextMarkers \cup SlashMarkers \cup CodeMarkers
    \cup {s_aside, s_blockquote, s_ref, s_note, s_warning, s_hr, s_bookmark,
          s_notes, s_warnings, s_list, s_olist, s_checklist, s_todo, s_image,
          s_youtube, s_vimeo, s_hidden, s_metadata, s_categories}

\* the keyword of a structural marker line
Keyword(line) == trim(Drop(line, 2))

\* a structural marker line whose keyword is no section kind
UnknownMarker(line) ==
  /\ starts_with(line, s_dashes)
  /\ Keyword(line) \notin SectionKinds

\* C11: when a structural marker line's keyword is not one of the section
\* kinds, the whole parse fails with UnknownSection carrying that keyword;
\* no Page is returned, the line is neither skipped nor turned into text.
C11_UnknownSectionFatal ==
  Parsed
  => \A i \in 1..Len(source) :
       (UnknownMarker(source[i]) /\ \A j \in 1..(i - 1) : ~UnknownMarker(source[j]))
       => result = Err(<<"UnknownSection", Keyword(source[i])>>)

\* a checklist without entries followed by a marker line of unknown keyword
\* was parsed
C11_Witness ==
  /\ Parsed
  /\ source = <<n_checklist, u_bogus>>

(***************************************************************************)
(* SpecUnclosed: Page::new over short inputs of container and code block   *)
(* openings that may lack their close marker.                              *)
(***************************************************************************)
MaxUnclosedLines == 4

o_code == s_dashes \o s_code \o s_slash

UnclosedLines ==
  {Open(s_div), Close(s_div), o_code, c_end, s_fence, n_p, l_text}

InitUnclosed ==
  /\ source \in SeqsUpTo(UnclosedLines, MaxUnclosedLines)
  /\ reader = Reader_new(source)
  /\ call = <<"new">>
  /\ result = None
  /\ before = reader

NextUnclosed == ParsePage

SpecUnclosed == InitUnclosed /\ [][NextUnclosed]_vars

\* no line after the first is the line end
NeverEnds(end) == \A i \in 2..Len(source) : source[i] # end

\* the page is one Code section of tag code holding every line after the
\* first, raw
OneCodeToTheEnd(attributes) ==
  result = Ok([sections |->
                 <<Code(s_code, attributes, trim_end(Join(Tail(source), s_nl)))>>])

\* C12: when a container, or a slash-form or fenced code block, is opened and
\* the input ends before its close marker, the parse succeeds and the
\* container holds every section parsed up to the end of the input (the
\* block every line); at any nesting depth the missing close raises no error.
C12_ImplicitClose ==
  (Parsed /\ Len(source) > 0)
  => /\ (source[1] = Open(s_div) /\ Page_new(Tail(source)).ok)
          => result
               = Ok([sections |->
                       <<Container(s_div, <<>>, Page_new(Tail(source)).v.sections)>>])
     /\ (source[1] = o_code /\ NeverEnds(c_end)) => OneCodeToTheEnd(<<>>)
     /\ (source[1] = s_fence /\ NeverEnds(s_fence)) => OneCodeToTheEnd(<<>>)

\* a container holding an open container holding an open code block was
\* parsed to the end of the input
C12_Witness ==
  /\ Parsed
  /\ source = <<Open(s_div), Open(s_div), o_code, l_text>>
  /\ result.ok

(***************************************************************************)
(* SpecTitle: Page::new over short inputs opening with a title or          *)
(* subtitle marker.                                                        *)
(***************************************************************************)
MaxTitleLines == 3

n_title == s_dashes \o s_title
n_subtitle == s_dashes \o s_subtitle

TitleMarkers == {n_title, n_subtitle}

TitleLines == {l_id, n_p, t_b, l_text, l_blank}

InitTitle ==
  /\ source \in {<<m>> \o rest : m \in TitleMarkers,
                                rest \in SeqsUpTo(TitleLines, MaxTitleLines)}
  /\ reader = Reader_new(source)
  /\ call = <<"new">>
  /\ result = None
  /\ before = reader

NextTitle == ParsePage

SpecTitle == InitTitle /\ [][NextTitle]_vars

\* the line after the title's attribute lines (here, the --id lines after
\* the opening line) and the blank lines after them
TitleBody ==
  CHOOSE j \in 2..(Len(source) + 1) :
    /\ \E a \in 2..j :
         /\ \A i \in 2..(a - 1) : source[i] = l_id
         /\ a <= Len(source) => source[a] # l_id
         /\ \A i \in a..(j - 1) : is_blank(source[i])
    /\ j <= Len(source) => ~is_blank(source[j])

\* C13: a title or subtitle section without a non-blank content line after
\* its attributes, before the next structural marker or the end of the
\* input, fails the parse with EmptyTitle; otherwise its content is that one
\* non-empty content line.
C13_EmptyTitle ==
  Parsed
  => IF TitleBody > Len(source) \/ StructuralLine(source[TitleBody])
     THEN result = Err(<<"EmptyTitle">>)
     ELSE /\ result.ok
          /\ result.v.sections[1].content = source[TitleBody]
          /\ Len(result.v.sections[1].content) > 0

\* a title followed by a paragraph marker and its text was parsed
C13_Witness ==
  /\ Parsed
  /\ source = <<n_title, n_p, l_text>>

(***************************************************************************)
(* SpecEmbed: Section::parse for image, youtube and vimeo over a short     *)
(* input.                                                                  *)
(***************************************************************************)
MaxEmbedLines == 3

e_src == <<"-", "-", "a", ".", "p", "n", "g">>
e_spaced == <<"-", "-", " ", "v", "1", " ">>

EmbedLines == {e_src, e_spaced, s_dashes, l_id, l_text, l_blank}

EmbedSections == {s_image, s_youtube, s_vimeo}

InitEmbed ==
  /\ source \in SeqsUpTo(EmbedLines, MaxEmbedLines)
  /\ reader = Reader_new(source)
  /\ call = <<"new">>
  /\ result = None
  /\ before = reader

ParseEmbed ==
  /\ call = <<"new">>
  /\ \E section \in EmbedSections :
       LET o == Section_parse(reader, section)
       IN Apply(<<"Section::parse", section>>, o.r, outcome(o))

NextEmbed == ParseEmbed

SpecEmbed == InitEmbed /\ [][NextEmbed]_vars

\* the number of attribute lines after the reference line: here, the --id
\* lines from line 2 on
EmbedAttributes ==
  CHOOSE k \in 0..Len(source) :
    /\ \A i \in 2..(k + 1) : i <= Len(source) /\ source[i] = l_id
    /\ k + 2 <= Len(source) => source[k + 2] # l_id

\* C14: an image, youtube or vimeo section takes the line right after its
\* opening line, which must be a marker line, as its reference: the line's
\* stripped body is the source or video id and that one line is consumed for
\* it; when the line is absent or no marker line the parse fails with
\* ExpectedImageSource (image) or ExpectedVideoID (youtube, vimeo).
C14_EmbedReference ==
  ParsedCode
  => IF Len(source) > 0 /\ starts_with(source[1], s_dashes)
     THEN /\ result.ok
          /\ call[2] = s_image
               => /\ result.v.kind = "Image"
                  /\ result.v.src = trim(Drop(source[1], 2))
                  /\ Len(result.v.attributes) = EmbedAttributes
                  /\ remaining(reader)
                       = SubSeq(source, EmbedAttributes + 2, Len(source))
          /\ call[2] = s_youtube => result.v = Youtube(trim(Drop(source[1], 2)))
          /\ call[2] = s_vimeo => result.v = Vimeo(trim(Drop(source[1], 2)))
          /\ call[2] # s_image => remaining(reader) = Tail(source)
     ELSE /\ result = Err(<<IF call[2] = s_image THEN "ExpectedImageSource"
                            ELSE "ExpectedVideoID">>)
          /\ remaining(reader) = source

\* a youtube section whose reference line has spaces around the id, followed
\* by another marker line, was parsed
C14_Witness ==
  /\ ParsedCode
  /\ call[2] = s_youtube
  /\ source = <<e_spaced, e_src>>

(***************************************************************************)
(* SpecMetadata: Section::parse for metadata over a short input.           *)
(***************************************************************************)
MaxMetadataLines == 3

m_ab == <<"-", "-", "a", ":", " ", "b">>
m_ac == <<"-", "-", "a", ":", "c">>
m_kvw == <<"-", "-", " ", "k", " ", ":", "v", ":", "w", " ">>
m_bad == <<"-", "-", "b", "a", "d">>

MetadataLines == {m_ab, m_ac, m_kvw, m_bad, l_text, l_blank}

InitMetadata ==
  /\ source \in SeqsUpTo(MetadataLines, MaxMetadataLines)
  /\ reader = Reader_new(source)
  /\ call = <<"new">>
  /\ result = None
  /\ before = reader

ParseMetadata ==
  /\ call = <<"new">>
  /\ LET o == Section_parse(reader, s_metadata)
     IN Apply(<<"Section::parse", s_metadata>>, o.r, outcome(o))

NextMetadata == ParseMetadata

SpecMetadata == InitMetadata /\ [][NextMetadata]_vars

\* the first line of the metadata block: past the leading blank lines
BlockStart ==
  CHOOSE k \in 1..(Len(source) + 1) :
    /\ \A i \in 1..(k - 1) : is_blank(source[i])
    /\ k <= Len(source) => ~is_blank(source[k])

\* the line after the block: the first one from BlockStart on that is no
\* marker line
BlockEnd ==
  CHOOSE k \in BlockStart..(Len(source) + 1) :
    /\ \A i \in BlockStart..(k - 1) : starts_with(source[i], s_dashes)
    /\ k <= Len(source) => ~starts_with(source[k], s_dashes)

\* the block's lines, less their marker prefix
Block == [i \in 1..(BlockEnd - BlockStart) |-> Drop(source[BlockStart + i - 1], 2)]

HasColon(line) == \E i \in 1..Len(line) : line[i] = ":"

FirstColon(line) == CHOOSE i \in 1..Len(line) :
                      line[i] = ":" /\ \A j \in 1..(i - 1) : line[j] # ":"

KeyOf(line) == trim(SubSeq(line, 1, FirstColon(line) - 1))

ValueOf(line) == trim(SubSeq(line, FirstColon(line) + 1, Len(line)))

\* the mapping of the block's keys, each to the value of its last line
LastWins ==
  [k \in {KeyOf(Block[i]) : i \in 1..Len(Block)} |->
     ValueOf(Block[CHOOSE i \in 1..Len(Block) :
                     /\ KeyOf(Block[i]) = k
                     /\ \A j \in (i + 1)..Len(Block) : KeyOf(Block[j]) # k])]

\* C15: each line of a metadata block is split on : into key and value and
\* stored in a key-unique mapping, a later line overwriting an earlier one
\* of its key; a line that cannot be split is fatal with WrongMetadataFormat
\* naming the line; a well-formed block, one of zero entries included,
\* never raises it.
C15_MetadataMapping ==
  ParsedCode
  => IF \E i \in 1..Len(Block) : ~HasColon(Block[i])
     THEN \E i \in 1..Len(Block) :
            /\ ~HasColon(Block[i])
            /\ \A j \in 1..(i - 1) : HasColon(Block[j])
            /\ result = Err(<<"WrongMetadataFormat", Block[i]>>)
     ELSE /\ result.ok
          /\ DOMAIN result.v.data = DOMAIN LastWins
          /\ \A k \in DOMAIN LastWins : result.v.data[k] = LastWins[k]

\* a metadata section followed by no entry line was parsed
C15_Witness ==
  /\ ParsedCode
  /\ call[2] = s_metadata
  /\ source = <<l_blank, l_text>>

(***************************************************************************)
(* SpecConcurrent: several parses, each with its own Reader and its own    *)
(* section list, run interleaved, one turn of the top-level loop of        *)
(* next_sections at a time.  source, reader and result map each parse to   *)
(* its input, its Reader and its progress.                                 *)
(***************************************************************************)
MaxParseLines == 2

Parses == {1, 2}

ParseLines == {n_p, l_text, c_hash, u_bogus}

\* every parse uses the first parse's Reader
cursor_shared(readers, p) == readers[1]

\* the Reader of parse p: the one Page::new made for it
cursor_of(readers, p) == readers[p]

running(sections) == [status |-> "running", sections |-> sections]

\* the progress of a parse after a turn
progress(was, t) ==
  IF ~t.s.ok THEN [status |-> "failed", err |-> t.s.err]
  ELSE IF t.exit THEN [status |-> "done", sections |-> was.sections]
  ELSE running(Append(was.sections, t.s.v))

InitConcurrent ==
  /\ source \in [Parses -> SeqsUpTo(ParseLines, MaxParseLines)]
  /\ reader = [p \in Parses |-> Reader_new(source[p])]
  /\ call = <<"new">>
  /\ result = [p \in Parses |-> running(<<>>)]
  /\ before = reader

TurnOf(p, t) ==
  /\ reader' = [reader EXCEPT ![p] = t.s.r]
  /\ result' = [result EXCEPT ![p] = progress(result[p], t)]
  /\ call' = <<"turn", p>>
  /\ before' = reader
  /\ UNCHANGED source

Turn ==
  /\ \E p \in Parses :
       /\ result[p].status = "running"
       /\ TurnOf(p, next_sections_turn(cursor_of(reader, p), None))

NextConcurrent == Turn

SpecConcurrent == InitConcurrent /\ [][NextConcurrent]_vars

\* what parse p has returned, once it has
Returned(p) ==
  IF result[p].status = "done" THEN Ok([sections |-> result[p].sections])
  ELSE Err(result[p].err)

IsPrefix(s, t) == Len(s) <= Len(t) /\ SubSeq(t, 1, Len(s)) = s

\* C16: when several parses run interleaved, each with its own Reader, a
\* step reads and writes only its own parse's cursor and section list, and
\* each parse's result is the result of running it alone, for every
\* interleaving.
C16_Isolation ==
  \A p \in Parses :
    /\ (call[1] = "turn" /\ call[2] # p) => reader[p] = before[p]
    /\ result[p].status # "running" => Returned(p) = Page_new(source[p])
    /\ (result[p].status = "running" /\ Page_new(source[p]).ok)
         => IsPrefix(result[p].sections, Page_new(source[p]).v.sections)

\* two parses of different inputs were both under way, each with a section
\* parsed and lines left
C16_Witness ==
  /\ source[1] = <<c_hash, n_p>>
  /\ source[2] = <<l_text, u_bogus>>
  /\ \A p \in Parses :
       /\ result[p].status = "running"
       /\ Len(result[p].sections) = 1

(***************************************************************************)
(* SpecCursor, continued: what a Reader holds and what a call takes.       *)
(***************************************************************************)
\* the lines the Reader has handed out so far
Consumed == SubSeq(source, 1, Len(source) - Len(remaining(reader)))

\* the lines the last call took from the Reader
Taken ==
  SubSeq(remaining(before), 1, Len(remaining(before)) - Len(remaining(reader)))

\* the last call returned no line and no attribute
ReturnedNothing ==
  \/ call[1] = "peek_line"
  \/ call[1] \in {"next_line_if", "next_line_if_map"} /\ is_none(result)
  \/ call[1] = "skip_blank" /\ ~result
  \/ call[1] = "next_attr" /\ result.ok /\ is_none(result.v)

\* C19: the Reader holds at most one peeked line; the lines consumed, then
\* the peeked line, then the lines left in the source are the input in
\* order; a call takes lines from the front only, a call that returns
\* nothing (next_attr rejecting a marker line included) takes none, and
\* next_line and next_line_if return the line they took.
C19_Conservation ==
  /\ Len(reader.peek) <= 1
  /\ Len(remaining(reader)) <= Len(source)
  /\ Consumed \o reader.peek \o reader.lines = source
  /\ Len(remaining(reader)) <= Len(remaining(before))
  /\ Taken \o remaining(reader) = remaining(before)
  /\ ReturnedNothing => Taken = <<>>
  /\ call[1] \in {"next_line", "next_line_if"} => result = Taken

\* next_attr read a marker line that is no attribute and put it back
C19_Witness ==
  /\ source = <<l_id, l_unknown, l_text>>
  /\ call = <<"next_attr">>
  /\ before.peek = None
  /\ before.lines = <<l_unknown, l_text>>
  /\ result.ok
  /\ is_none(result.v)
  /\ reader.peek = Some(l_unknown)
  /\ reader.lines = <<l_text>>

(***************************************************************************)
(* SpecList: Section::parse for list, olist, notes and warnings over a     *)
(* short input.                                                            *)
(***************************************************************************)
MaxListLines == 3

li_bare == <<"-", " ">>
li_a == <<"-", " ", "a">>

ListLines == {li_bare, li_a, l_text, l_blank, n_p}

ListSections == {s_list, s_olist, s_notes, s_warnings}

InitList ==
  /\ source \in SeqsUpTo(ListLines, MaxListLines)
  /\ reader = Reader_new(source)
  /\ call = <<"new">>
  /\ result = None
  /\ before = reader

ParseList ==
  /\ call = <<"new">>
  /\ \E section \in ListSections :
       LET o == Section_parse(reader, section)
       IN Apply(<<"Section::parse", section>>, o.r, outcome(o))

NextList == ParseList

SpecList == InitList /\ [][NextList]_vars

\* the entries next_list collects for the section
Entries ==
  next_list(Reader_new(source),
            [kind |-> "starts_with", prefix |-> s_dash_space]).v

Panicked == ~result.ok /\ result.err[1] = "panic"

MaxLoopLines == 3

LoopLines == {l_text, l_blank, li_a, n_p, c_hash, u_bogus}

dash_filter == [kind |-> "starts_with", prefix |-> s_dash_space]

TextClosures ==
  { [kind |-> "until", u |-> [kind |-> "section"]],
    [kind |-> "until", u |-> entry_until(dash_filter)],
    [kind |-> "prefixed", prefix |-> s_dashes, raw |-> FALSE],
    [kind |-> "heading", prefix |-> s_hash] }

InitLoops ==
  /\ source = <<>>
  /\ reader = Reader_new(source)
  /\ call = <<"new", "idle", 0>>
  /\ result = None
  /\ before = reader

\* a loop is entered on r with nothing accumulated
Entered(lines, loop, r, acc) ==
  /\ source' = lines
  /\ reader' = r
  /\ call' = <<loop, "running", 0>>
  /\ result' = acc
  /\ before' = r

\* Page::new enters next_sections on a new Reader; next_list and next_text
\* enter their loop after skip_blanks
EnterLoop ==
  /\ call[2] = "idle"
  /\ \E lines \in SeqsUpTo(LoopLines, MaxLoopLines) :
       \/ Entered(lines, "next_sections", Reader_new(lines), <<>>)
       \/ Entered(lines, "next_list", skip_blanks(Reader_new(lines)), <<>>)
       \/ \E f \in TextClosures :
            Entered(lines, "next_text", skip_blanks(Reader_new(lines)),
                    [text |-> <<>>, f |-> f])

Turned(r, status, acc) ==
  /\ reader' = r
  /\ call' = <<call[1], status, call[3] + 1>>
  /\ result' = acc
  /\ before' = reader
  /\ UNCHANGED source

Running(loop) ==
  /\ call[1] = loop
  /\ call[2] = "running"
  /\ call[3] <= Len(source)

SectionsTurned(t) ==
  IF ~t.s.ok THEN Turned(t.s.r, "failed", result)
  ELSE IF t.exit THEN Turned(t.s.r, "exited", result)
  ELSE Turned(t.s.r, "running", Append(result, t.s.v))

SectionsTurn ==
  /\ Running("next_sections")
  /\ \E t \in {next_sections_turn(reader, None)} : SectionsTurned(t)

ListTurned(t) ==
  IF t.exit THEN Turned(t.r, "exited", result)
  ELSE Turned(t.r, "running", Append(result, t.v))

ListTurn ==
  /\ Running("next_list")
  /\ \E t \in {next_list_turn(reader, dash_filter)} : ListTurned(t)

TextTurned(n) ==
  IF is_none(n.v) THEN Turned(n.r, "exited", [result EXCEPT !.f = n.f])
  ELSE Turned(n.r, "running",
              [text |-> push_line(result.text, unwrap(n.v), FALSE), f |-> n.f])

TextTurn ==
  /\ Running("next_text")
  /\ \E n \in {next_line_if_map(reader, result.f)} : TextTurned(n)

NextLoops ==
  \/ EnterLoop
  \/ SectionsTurn
  \/ ListTurn
  \/ TextTurn

SpecLoops == InitLoops /\ [][NextLoops]_vars

\* a step of NextLoops can be taken: ENABLED <<NextLoops>>_vars, since every
\* step adds one to the turns taken
CanTurn == call[2] \in {"idle", "running"} /\ call[3] <= Len(source)

\* a loop that can take a turn takes it: the parse is one thread that runs
\* to completion.  This is WF_vars(NextLoops) with ENABLED <<NextLoops>>_vars
\* written as CanTurn.
SpecLoopsFair ==
  SpecLoops /\ ([]<>(~CanTurn) \/ []<><<NextLoops>>_vars)

\* a turn that leaves the loop running has taken at least one line
Progress ==
  (call[2] = "running" /\ call'[2] = "running")
  => Len(remaining(reader')) < Len(remaining(reader))

\* C18: each turn of the top-level section loop, of the list-entry loop and
\* of the text accumulation loop either consumes at least one line or ends
\* the loop, and the loop ends (at the end of input, at a line it stops at,
\* or with an error) within one turn more than the input has lines.
C18_Terminates ==
  /\ [][Progress]_vars
  /\ [](call[3] <= Len(source) + 1)
  /\ (call[2] = "running") ~> (call[2] \in {"exited", "failed"})

\* the list loop ended after two entries and the turn that found no entry
C18_Witness ==
  /\ source = <<li_a, l_text, li_a>>
  /\ call = <<"next_list", "exited", 3>>
  /\ Len(result) = 2
  /\ remaining(reader) = <<>>

(***************************************************************************)
(* section.rs: text_to_html.  The regular expressions of text_to_html are  *)
(* matched as the regex crate matches them (leftmost first, * greedy, *?   *)
(* lazy, . any character but a line feed).  A pattern is                   *)
(*   [kind |-> "attrs"]: (\w+)\s*:\s*(\w+)\|?                              *)
(*   [kind |-> "lazy", open |-> the literal it starts with,                *)
(*    tag |-> whether (\w+)\s*\| follows the literal,                      *)
(*    delims |-> the literal after each (.*?) group]                       *)
(* A match is [caps |-> the captures, end |-> the index after the match].  *)
(* A replacement is [open |-> the markup generated up to the content,      *)
(* rest |-> the content and what follows it].                              *)
(***************************************************************************)
WordChars ==
  {"a", "b", "c", "d", "e", "f", "g", "h", "i", "j", "k", "l", "m", "n", "o",
   "p", "q", "r", "s", "t", "u", "v", "w", "x", "y", "z", "A", "B", "C", "D",
   "E", "F", "G", "H", "I", "J", "K", "L", "M", "N", "O", "P", "Q", "R", "S",
   "T", "U", "V", "W", "X", "Y", "Z", "0", "1", "2", "3", "4", "5", "6", "7",
   "8", "9", "_"}

s_pipe == <<"|">>
s_br == <<"<", "b", "r", ">">>
s_img == <<"i", "m", "g">>
s_link == <<"l", "i", "n", "k">>
s_a == <<"a">>
s_strong == <<"s", "t", "r", "o", "n", "g">>
s_em == <<"e", "m">>
s_s == <<"s">>
s_self_close == <<" ", "/", ">">>
s_img_src == <<"<", "i", "m", "g", " ", "s", "r", "c", "=", "\"">>
s_img_close == <<"\"", " ", "/", ">">>
s_href == <<"h", "r", "e", "f", " ", "=", " ", "\"">>
s_attr_eq == <<" ", "=", " ", "\"">>

\* \w and \s
in_class(k, c) == IF k = "w" THEN c \in WordChars ELSE is_whitespace(c)

\* the index after the longest run of class k at i
RECURSIVE span(_, _, _)
span(s, i, k) ==
  IF i <= Len(s) /\ in_class(k, s[i]) THEN span(s, i + 1, k) ELSE i

starts_at(s, i, p) ==
  i + Len(p) - 1 <= Len(s) /\ SubSeq(s, i, i + Len(p) - 1) = p

\* (.*?) up to the literal p: the index of the first p at or after i with no
\* line feed before it, 0 when there is none
RECURSIVE find_on_line(_, _, _)
find_on_line(s, p, i) ==
  IF i + Len(p) - 1 > Len(s) THEN 0
  ELSE IF starts_at(s, i, p) THEN i
  ELSE IF s[i] = "\n" THEN 0
  ELSE find_on_line(s, p, i + 1)

RECURSIVE groups(_, _, _, _)
\* one (.*?) group from i, given where its closing literal is
groups_found(s, i, ds, caps, j) ==
  IF j = 0 THEN None
  ELSE groups(s, j + Len(ds[1]), Tail(ds), Append(caps, SubSeq(s, i, j - 1)))

\* the (.*?) groups from i, each up to its literal of ds
groups(s, i, ds, caps) ==
  IF Len(ds) = 0 THEN Some([caps |-> caps, end |-> i])
  ELSE groups_found(s, i, ds, caps, find_on_line(s, ds[1], i))

\* (\w+)\s*\| from w, given the end e of the word and the end b of the
\* spaces
tag_pipe(s, w, e, b, p) ==
  IF starts_at(s, b, s_pipe)
  THEN groups(s, b + 1, p.delims, <<SubSeq(s, w, e - 1)>>)
  ELSE None

tag_word(s, w, e, p) ==
  IF e = w THEN None ELSE tag_pipe(s, w, e, span(s, e, "s"), p)

lazy_at(s, i, p) ==
  IF ~starts_at(s, i, p.open) THEN None
  ELSE IF p.tag
  THEN tag_word(s, i + Len(p.open), span(s, i + Len(p.open), "w"), p)
  ELSE groups(s, i + Len(p.open), p.delims, <<>>)

\* (\w+)\s*:\s*(\w+)\|? from i, given the end of each run
attrs_value(s, i, w1, b2, w2) ==
  IF w2 = b2 THEN None
  ELSE Some([caps |-> <<SubSeq(s, i, w1 - 1), SubSeq(s, b2, w2 - 1)>>,
             end |-> IF starts_at(s, w2, s_pipe) THEN w2 + 1 ELSE w2])

attrs_spaces(s, i, w1, b2) == attrs_value(s, i, w1, b2, span(s, b2, "w"))

attrs_colon(s, i, w1, b1) ==
  IF starts_at(s, b1, s_colon)
  THEN attrs_spaces(s, i, w1, span(s, b1 + 1, "s"))
  ELSE None

attrs_name(s, i, w1) ==
  IF w1 = i THEN None ELSE attrs_colon(s, i, w1, span(s, w1, "s"))

attrs_at(s, i) == attrs_name(s, i, span(s, i, "w"))

\* the match of pattern p that starts at i, if there is one
match_at(s, i, p) ==
  IF p.kind = "attrs" THEN attrs_at(s, i) ELSE lazy_at(s, i, p)

\* Regex::new(&escape_html(pattern)): the literals of the pattern escaped
compile(p) ==
  IF p.kind = "attrs" THEN p
  ELSE [p EXCEPT !.open = escape_html(p.open),
                 !.delims = [i \in DOMAIN p.delims |-> escape_html(p.delims[i])]]

RECURSIVE replacer(_, _)
RECURSIVE replace_from(_, _, _, _, _, _)
\* replace_all, given the match at i: out is [text |-> the text built,
\* emitted |-> the markup of each replacement made]
replace_made(s, p, f, i, out, last, m, html) ==
  replace_from(s, p, f, m.end,
               [text |-> out.text \o SubSeq(s, last, i - 1) \o html.open
                           \o html.rest,
                emitted |-> Append(out.emitted, html.open)],
               m.end)

replace_try(s, p, f, i, out, last, m) ==
  IF is_none(m) THEN replace_from(s, p, f, i + 1, out, last)
  ELSE replace_made(s, p, f, i, out, last, unwrap(m),
                    replacer(f, unwrap(m).caps))

replace_from(s, p, f, i, out, last) ==
  IF i > Len(s)
  THEN [text |-> out.text \o SubSeq(s, last, Len(s)), emitted |-> out.emitted]
  ELSE replace_try(s, p, f, i, out, last, match_at(s, i, p))

\* regex_replace (section.rs:560-568) with the markup it generated
regex_replaced(text, pattern, f) ==
  replace_from(text, compile(pattern), f, 1,
               [text |-> <<>>, emitted |-> <<>>], 1)

regex_replace(text, pattern, f) == regex_replaced(text, pattern, f).text

format_attrs(attrs) ==
  regex_replace(attrs, [kind |-> "attrs"], [kind |-> "attrs"])

wrap_tag(tag, attrs, content) ==
  [open |-> s_open \o tag \o s_sp \o attrs \o s_gt,
   rest |-> content \o s_open_close \o tag \o s_gt]

\* Path::join: an absolute path replaces the root
path_join(root, path) ==
  IF starts_with(path, s_slash) \/ Len(root) = 0 THEN path
  ELSE IF ends_with(root, s_slash) THEN root \o path
  ELSE root \o s_slash \o path

format_link(project_root, link) ==
  IF starts_with(link, s_slash) THEN path_join(project_root, Tail(link))
  ELSE link

\* make_link, given link.split_once('|').unwrap_or((link, ""))
make_link_of(project_root, text, link, attrs) ==
  wrap_tag(s_a,
           s_href \o format_link(project_root, link) \o s_quote
             \o format_attrs(attrs),
           text)

make_link_at(project_root, text, link, i) ==
  IF i = 0 THEN make_link_of(project_root, text, link, <<>>)
  ELSE make_link_of(project_root, text, SubSeq(link, 1, i - 1),
                    SubSeq(link, i + 1, Len(link)))

make_link(project_root, text, link) ==
  make_link_at(project_root, text, link, find(link, s_pipe))

\* the closures handed to regex_replace (section.rs:570-642)
replacer(f, caps) ==
  CASE f.kind = "attrs" ->
         [open |-> caps[1] \o s_attr_eq \o caps[2] \o s_quote, rest |-> <<>>]
    [] f.kind = "tag" ->
         IF caps[1] = s_img
         THEN [open |-> s_img_src \o format_link(f.project_root, caps[2])
                          \o s_img_close,
               rest |-> <<>>]
         ELSE [open |-> s_open \o caps[1] \o s_sp \o format_attrs(caps[2])
                          \o s_self_close,
               rest |-> <<>>]
    [] f.kind = "tag_content" ->
         IF caps[1] = s_link THEN make_link(f.project_root, caps[2], caps[3])
         ELSE wrap_tag(caps[1], format_attrs(caps[3]), caps[2])
    [] f.kind = "shortcut" -> make_link(f.project_root, caps[1], caps[2])
    [] f.kind = "autolink" -> make_link(f.project_root, caps[1], caps[1])
    [] f.kind = "wrap" -> wrap_tag(f.tag, format_attrs(caps[2]), caps[1])

\* str::replace(from, to)
RECURSIVE replace(_, _, _)
replace(s, from, to) ==
  IF Len(s) = 0 THEN <<>>
  ELSE IF starts_with(s, from)
  THEN to \o replace(SubSeq(s, Len(from) + 1, Len(s)), from, to)
  ELSE <<s[1]>> \o replace(Tail(s), from, to)

\* the escapes (section.rs:596-602), on the escaped text
Escapes ==
  << [from |-> <<"\\", "\\">>, to |-> <<"&", "b", "s", "o", "l", ";">>],
     [from |-> <<"\\">> \o s_lt, to |-> <<"&", "#", "x", "0", "0", "3", "c", ";">>],
     [from |-> <<"\\">> \o s_amp_gt,
      to |-> <<"&", "#", "x", "0", "0", "3", "e", ";">>],
     [from |-> <<"\\", "*">>, to |-> <<"&", "#", "x", "0", "0", "2", "a", ";">>],
     [from |-> <<"\\", "_">>, to |-> <<"&", "#", "x", "0", "0", "5", "f", ";">>],
     [from |-> <<"\\", "~">>, to |-> <<"&", "#", "x", "0", "0", "7", "e", ";">>],
     [from |-> <<"\\", backtick>>,
      to |-> <<"&", "#", "x", "0", "0", "6", "0", ";">>] >>

RECURSIVE escapes_from(_, _)
escapes_from(text, i) ==
  IF i > Len(Escapes) THEN text
  ELSE escapes_from(replace(text, Escapes[i].from, Escapes[i].to), i + 1)

escapes(text) == escapes_from(escape_html(text), 1)

three(d) == [kind |-> "lazy", open |-> d, tag |-> FALSE, delims |-> <<d, d>>]

tagged(ds) ==
  [kind |-> "lazy", open |-> <<"<", "<">>, tag |-> TRUE, delims |-> ds]

\* the regex_replace calls of text_to_html, in order (section.rs:605-642)
Passes(project_root) ==
  << [p |-> tagged(<< <<">", ">">> >>),
      f |-> [kind |-> "tag", project_root |-> project_root]],
     [p |-> tagged(<<s_pipe, <<">", ">">> >>),
      f |-> [kind |-> "tag_content", project_root |-> project_root]],
     [p |-> three(s_gt),
      f |-> [kind |-> "shortcut", project_root |-> project_root]],
     [p |-> [kind |-> "lazy", open |-> s_open, tag |-> FALSE,
             delims |-> <<s_gt>>],
      f |-> [kind |-> "autolink", project_root |-> project_root]],
     [p |-> three(<<"*">>), f |-> [kind |-> "wrap", tag |-> s_strong]],
     [p |-> three(<<"_">>), f |-> [kind |-> "wrap", tag |-> s_em]],
     [p |-> three(<<"~">>), f |-> [kind |-> "wrap", tag |-> s_s]],
     [p |-> three(<<backtick>>), f |-> [kind |-> "wrap", tag |-> s_code]] >>

\* the k-th regex_replace call of text_to_html on text
pass(project_root, k, text) ==
  regex_replaced(text, Passes(project_root)[k].p, Passes(project_root)[k].f)

RECURSIVE passes_from(_, _, _)
passes_from(project_root, text, k) ==
  IF k > Len(Passes(project_root)) THEN text
  ELSE passes_from(project_root, pass(project_root, k, text).text, k + 1)

line_breaks(text) == replace(text, s_nl, s_br)

text_to_html(project_root, text) ==
  line_breaks(passes_from(project_root, escapes(text), 1))

(***************************************************************************)
(* SpecInline: text_to_html on a short text, one step at a time: the       *)
(* escapes, each regex_replace call in order, the line breaks.  source is  *)
(* the text; call is <<the last step, the regex_replace calls made>>;      *)
(* result is [text |-> the text so far, emitted |-> the markup the         *)
(* regex_replace calls have generated so far].                             *)
(***************************************************************************)
MaxInlinePieces == 5

project_root == <<"r">>

InlinePieces ==
  { <<"<">>, <<">">>, <<"_">>, <<"a">>, <<":">>, <<"<", "<", "a", "|">>,
    <<">", ">">> }

RECURSIVE Concat(_)
Concat(pieces) ==
  IF Len(pieces) = 0 THEN <<>> ELSE pieces[1] \o Concat(Tail(pieces))

InitInline ==
  /\ source \in {Concat(pieces) :
                   pieces \in SeqsUpTo(InlinePieces, MaxInlinePieces)}
  /\ reader = None
  /\ call = <<"new", 0>>
  /\ result = [text |-> source, emitted |-> <<>>]
  /\ before = source

Stepped(step, k, text, emitted) ==
  /\ call' = <<step, k>>
  /\ result' = [text |-> text, emitted |-> result.emitted \o emitted]
  /\ before' = result.text
  /\ UNCHANGED <<source, reader>>

Escape ==
  /\ call[1] = "new"
  /\ Stepped("escapes", 0, escapes(result.text), <<>>)

Rewritten(k, out) == Stepped("regex_replace", k, out.text, out.emitted)

Rewrite ==
  /\ call[1] \in {"escapes", "regex_replace"}
  /\ call[2] < Len(Passes(project_root))
  /\ Rewritten(call[2] + 1, pass(project_root, call[2] + 1, result.text))

LineBreaks ==
  /\ call[1] \in {"escapes", "regex_replace"}
  /\ call[2] = Len(Passes(project_root))
  /\ Stepped("line_breaks", call[2], line_breaks(result.text), <<>>)

NextInline ==
  \/ Escape
  \/ Rewrite
  \/ LineBreaks

SpecInline == InitInline /\ [][NextInline]_vars

Contains(s, p) == find(s, p) # 0

\* C17: a regex_replace call of text_to_html does not re-match what an
\* earlier call produced: the markup an earlier call generated (the opening
\* tag with its href and attribute text) is still in the text, unaltered,
\* after every later call.
C17_NoRematch ==
  call[1] = "regex_replace"
  => \A i \in 1..Len(result.emitted) : Contains(result.text, result.emitted[i])

\* the em pass has run on the anchor the autolink pass generated for <___>
\* and rewritten its href
C17_Witness ==
  /\ source = <<"<", "_", "_", "_", ">">>
  /\ call = <<"regex_replace", 6>>
  /\ result.emitted[1]
       = s_open \o s_a \o s_sp \o s_href \o <<"_", "_", "_">> \o s_quote \o s_gt
  /\ ~Contains(result.text, result.emitted[1])
  /\ Contains(result.text, s_href \o s_open \o s_em)

(***************************************************************************)
(* SpecChecklist: Section::parse for checklist and todo over a short       *)
(* input.                                                                  *)
(***************************************************************************)
MaxChecklistLines == 3

k_open == <<"[", "]", " ", "a">>
k_done == <<"[", "x", "]", " ", "b">>

ChecklistLines == {k_open, k_done, l_text, l_blank, n_p, c_hash}

ChecklistSections == {s_checklist, s_todo}

InitChecklist ==
  /\ source \in SeqsUpTo(ChecklistLines, MaxChecklistLines)
  /\ reader = Reader_new(source)
  /\ call = <<"new">>
  /\ result = None
  /\ before = reader

ParseChecklist ==
  /\ call = <<"new">>
  /\ \E section \in ChecklistSections :
       LET o == Section_parse(reader, section)
       IN Apply(<<"Section::parse", section>>, o.r, outcome(o))

NextChecklist == ParseChecklist

SpecChecklist == InitChecklist /\ [][NextChecklist]_vars

EntryLine(line) == list_filter([kind |-> "check"], line)

\* the first line that is an entry or, when markers count, a structural
\* marker line (past the end of the input: none)
FirstStop(markers) ==
  CHOOSE k \in 1..(Len(source) + 1) :
    /\ \A i \in 1..(k - 1) :
         ~(EntryLine(source[i]) \/ (markers /\ StructuralLine(source[i])))
    /\ k <= Len(source)
         => (EntryLine(source[k]) \/ (markers /\ StructuralLine(source[k])))

\* the lines of L flowed onto text, as next_text flows them
RECURSIVE Flow(_, _)
Flow(text, L) ==
  IF Len(L) = 0 THEN text ELSE Flow(push_line(text, L[1], FALSE), Tail(L))

PreludeUpTo(k) == trim(Flow(<<>>, SubSeq(source, 1, k - 1)))

FirstMarker ==
  CHOOSE k \in 1..(Len(source) + 1) :
    /\ \A i \in 1..(k - 1) : ~StructuralLine(source[i])
    /\ k <= Len(source) => StructuralLine(source[k])

\* C21: the prelude of a checklist or todo section ends at the first entry
\* line or at the next structural marker line, whichever comes first: it is
\* the flowed text of the lines before that line, and the first structural
\* marker line and the lines after it are left for the next section.
C21_PreludeBounded ==
  ParsedCode
  => /\ result.ok
     /\ result.v.prelude = PreludeUpTo(FirstStop(TRUE))
     /\ Len(remaining(reader)) >= Len(source) - FirstMarker + 1

\* a checklist whose prelude line is followed by a --p section was parsed:
\* the marker line and its text are in the prelude
C21_Witness ==
  /\ ParsedCode
  /\ call[2] = s_checklist
  /\ source = <<l_text, n_p, l_text>>
  /\ result.ok
  /\ result.v.prelude = l_text \o s_sp \o n_p \o s_sp \o l_text
  /\ remaining(reader) = <<>>

(***************************************************************************)
(* SpecNesting, continued: close markers that close nothing.               *)
(***************************************************************************)
IsClose(line) == \E T \in ContainerTags : line = Close(T)

\* the tags open after line, given the tags open before it, innermost first
OpenAfter(line, open) ==
  IF \E T \in ContainerTags : line = Open(T)
  THEN <<CHOOSE T \in ContainerTags : line = Open(T)>> \o open
  ELSE IF IsClose(line) THEN Tail(open)
  ELSE open

\* the first close marker from line i on that does not name the innermost
\* open container (0: none)
RECURSIVE FirstBadClose(_, _, _)
FirstBadClose(lines, open, i) ==
  IF i > Len(lines) THEN 0
  ELSE IF IsClose(lines[i]) /\ (Len(open) = 0 \/ lines[i] # Close(open[1]))
  THEN i
  ELSE FirstBadClose(lines, OpenAfter(lines[i], open), i + 1)

\* C22: a close marker --/X ends a section sequence only when X is the tag
\* of the innermost container being parsed; the first close marker at top
\* level or naming another tag (an outer container's included) makes the
\* parse fail with UnknownSection naming /X, and without such a marker the
\* parse succeeds.
C22_CloseInnermostOnly ==
  Parsed
  => IF FirstBadClose(source, <<>>, 1) # 0
     THEN result
            = Err(<<"UnknownSection",
                    Keyword(source[FirstBadClose(source, <<>>, 1)])>>)
     ELSE result.ok

\* a checklist followed by a close marker at top level was parsed, and the
\* parse succeeded
C22_Witness ==
  /\ Parsed
  /\ source = <<n_checklist, Close(s_div)>>
  /\ FirstBadClose(source, <<>>, 1) = 2
  /\ result.ok

====
